---- MODULE Spec2Model ----
(***************************************************************************)
(* Model of the emnexmovies backend core:                                  *)
(*   - backend/utils/proxy.js : the session-cookie store, mergeCookies,    *)
(*     ensureCookiesAreAssigned and the failover dispatcher makeRequest;   *)
(*   - backend/utils/parser.js (src/unnamed/part_005): the decoder of the  *)
(*     flat, index-referenced payload embedded in a detail page.           *)
(*                                                                         *)
(* JavaScript strings are modelled as sequences of one-character strings,  *)
(* so that split / trim / join are computed, not assumed.                  *)
(***************************************************************************)
EXTENDS Integers, Sequences, FiniteSets, TLC

VARIABLES
    \* ---- mergeCookies applied to drawn inputs (SpecMerge) ----
    existingCookies,    \* first argument of mergeCookies
    newCookies,         \* second argument of mergeCookies
    mergedOnce,         \* mergeCookies(existingCookies, newCookies)
    mergedTwice,        \* mergeCookies(mergedOnce, newCookies)
    mpc,                \* "input" | "once" | "twice"
    \* ---- the session store and the dispatcher (Spec) ----
    globalCookies,      \* proxy.js: let globalCookies
    cookiesInitialized, \* proxy.js: let cookiesInitialized
    mbCookies,          \* process.env.MB_COOKIES
    calls,              \* the in-flight calls: one record per call
    \* ---- the payload decoder applied to drawn pages (SpecDecode) ----
    html,                 \* the page: its script tags in document order
    whole,                \* second argument of parseMovieDetailPage
    movieDetails,         \* outcome of parseMovieDetailPage(html, whole)
    downloadableMetadata, \* outcome of parseDownloadableMetadata(html)
    dpc,                  \* "detail" | "downloadable" | "done"
    \* ---- the streaming routes /download and /download-proxy (SpecStream) ----
    sreq,               \* the inbound request: route, url, Range header, cookies
    cdn,                \* the upstream resource: its size in bytes
    lib,                \* what the installed axios does with an idle or failed stream
    ups,                \* the upstream requests of the handler, in the order sent
    sres,               \* the client-facing response (res)
    spc,                \* position of the handler
    client,             \* "connected" | "gone"
    server,             \* "up" | "crashed"
    \* ---- the download-metadata and play routes and their client (SpecMeta) ----
    mcall,              \* the call of the frontend client: fn, season, episode
    mquery,             \* the query the route receives: route, se, ep, ...
    mup,                \* the request the route hands to makeRequest
    mapi,               \* the answer of the upstream API
    mout,               \* the answer of the route
    mfront,             \* what the frontend client returns
    metapc,             \* position of the request
    \* ---- the image load queue of the pages (SpecImages) ----
    imgs,               \* the img elements: data-src, src, loadedImages
    imageLoadQueue,     \* queue, loading, maxConcurrent, processTimeout
    imageLoaders,       \* the Image objects that are loading, with retryCount
    retryTimers,        \* the pending 500 ms retry timers of each img
    \* ---- the download queue of the pages (SpecQueue) ----
    downloadItems,      \* the DownloadItem objects, by id
    downloadQueue,      \* the ids the Map downloadQueue holds
    downloadHistory,    \* the ids of downloadHistory, newest first
    removalTimers,      \* the pending 5 s removal timers of each id
    \* ---- the search page (SpecSearch) ----
    currentSearchKeyword, \* search.js: let currentSearchKeyword
    currentFilters,       \* search.js: let currentFilters
    currentPage,          \* search.js: let currentPage
    searchRequests,       \* the calls of api.search, in the order sent
    searchPage            \* the location, #search-results and #pagination

mergeVars == <<existingCookies, newCookies, mergedOnce, mergedTwice, mpc>>

sessionVars == <<globalCookies, cookiesInitialized, mbCookies, calls>>

decodeVars == <<html, whole, movieDetails, downloadableMetadata, dpc>>

streamVars == <<sreq, cdn, lib, ups, sres, spc, client, server>>

metaVars == <<mcall, mquery, mup, mapi, mout, mfront, metapc>>

routeVars == <<streamVars, metaVars>>

imageVars == <<imgs, imageLoadQueue, imageLoaders, retryTimers>>

queueVars == <<downloadItems, downloadQueue, downloadHistory, removalTimers>>

searchVars == <<currentSearchKeyword, currentFilters, currentPage, searchRequests, searchPage>>

pageVars == <<imageVars, queueVars, searchVars>>

\* the state of the backend
backVars == <<mergeVars, sessionVars, decodeVars, routeVars>>

vars == <<backVars, pageVars>>

(***************************************************************************)
(* JavaScript strings                                                      *)
(***************************************************************************)

\* null / undefined where a string is expected (distinct from every string)
Null == <<"null">>

\* !s for a string-or-null s: null, undefined and "" are falsy
Falsy(s) == s = Null \/ s = <<>>

IsSpace(ch) == ch = " "

\* String.prototype.split(sep) for a one-character separator
Split(s, sep) ==
    LET RECURSIVE go(_, _)
        go(i, cur) ==
            IF i > Len(s) THEN <<cur>>
            ELSE IF s[i] = sep THEN <<cur>> \o go(i + 1, <<>>)
            ELSE go(i + 1, Append(cur, s[i]))
    IN go(1, <<>>)

\* String.prototype.trim()
Trim(s) ==
    LET RECURSIVE left(_)
        left(t) == IF t # <<>> /\ IsSpace(Head(t)) THEN left(Tail(t)) ELSE t
        RECURSIVE right(_)
        right(t) == IF t # <<>> /\ IsSpace(t[Len(t)])
                    THEN right(SubSeq(t, 1, Len(t) - 1)) ELSE t
    IN right(left(s))

\* Array.prototype.join(sep)
Join(parts, sep) ==
    LET RECURSIVE go(_)
        go(i) == IF i > Len(parts) THEN <<>>
                 ELSE IF i = Len(parts) THEN parts[i]
                 ELSE parts[i] \o sep \o go(i + 1)
    IN go(1)

(***************************************************************************)
(* mergeCookies (proxy.js)                                                 *)
(* A parsed cookie object is an ordered list of <<name, value>> pairs in   *)
(* insertion order, as Object.entries enumerates string keys.  Cookie      *)
(* names of the model are alphabetic, so the integer-key ordering rule of  *)
(* JavaScript objects does not apply.                                      *)
(***************************************************************************)

\* obj[name] = value on an insertion-ordered object
SetKey(obj, name, value) ==
    IF \E i \in 1..Len(obj) : obj[i][1] = name
    THEN [i \in 1..Len(obj) |-> IF obj[i][1] = name THEN <<name, value>> ELSE obj[i]]
    ELSE Append(obj, <<name, value>>)

\* the inner parseCookies arrow function of mergeCookies
parseCookies(cookieStr) ==
    LET parts == Split(cookieStr, ";")
        RECURSIVE go(_, _)
        go(i, cookies) ==
            IF i > Len(parts) THEN cookies
            ELSE LET trimmed == Trim(parts[i])
                     fields  == Split(trimmed, "=")
                     name    == fields[1]
                     value   == Join(Tail(fields), <<"=">>)
                 IN IF trimmed = <<>> THEN go(i + 1, cookies)
                    ELSE IF name # <<>> THEN go(i + 1, SetKey(cookies, name, value))
                    ELSE go(i + 1, cookies)
    IN go(1, <<>>)

\* { ...existing, ...newCookiesObj }
SpreadMerge(existing, newCookiesObj) ==
    LET RECURSIVE go(_, _)
        go(i, acc) == IF i > Len(newCookiesObj) THEN acc
                      ELSE go(i + 1, SetKey(acc, newCookiesObj[i][1], newCookiesObj[i][2]))
    IN go(1, existing)

\* Object.entries(merged).map(([name, value]) => `${name}=${value}`).join('; ')
FormatCookies(merged) ==
    Join([i \in 1..Len(merged) |-> merged[i][1] \o <<"=">> \o merged[i][2]], <<";", " ">>)

\* mutant: the early returns are kept but existing cookies win over new ones
mergeCookiesExistingWins(existing, new) ==
    IF Falsy(existing) /\ Falsy(new) THEN Null
    ELSE IF Falsy(existing) THEN new
    ELSE IF Falsy(new) THEN existing
    ELSE FormatCookies(SpreadMerge(parseCookies(new), parseCookies(existing)))

mergeCookies(existing, new) ==
    IF Falsy(existing) /\ Falsy(new) THEN Null
    ELSE IF Falsy(existing) THEN new
    ELSE IF Falsy(new) THEN existing
    ELSE FormatCookies(SpreadMerge(parseCookies(existing), parseCookies(new)))

(***************************************************************************)
(* The host pool (config/constants.js, proxy.js line 171)                  *)
(* Host names are atomic strings; MOVIEBOX_API_HOST is taken as unset.     *)
(***************************************************************************)

MIRROR_HOSTS ==
    << "h5.aoneroom.com", "movieboxapp.in", "moviebox.pk", "moviebox.ph",
       "moviebox.id", "v.moviebox.ph", "netnaija.video" >>

SELECTED_HOST == "https://" \o MIRROR_HOSTS[1]

\* SELECTED_HOST does not end with '/', so one is appended
HOST_URL == SELECTED_HOST \o "/"

\* mutant: the mirrors before the primary host
hostsMirrorsFirst ==
    [i \in 1..Len(MIRROR_HOSTS) |-> "https://" \o MIRROR_HOSTS[i] \o "/"] \o <<HOST_URL>>

\* const hosts = [HOST_URL, ...MIRROR_HOSTS.map(host => `https://${host}/`)]
hosts ==
    <<HOST_URL>> \o [i \in 1..Len(MIRROR_HOSTS) |-> "https://" \o MIRROR_HOSTS[i] \o "/"]

(***************************************************************************)
(* Upstream outcomes                                                       *)
(***************************************************************************)

\* the largest value of options.retries a caller passes (the default is 2)
MaxRetries == 2

\* an axios rejection: status 0 stands for "no error.response" (timeout,
\* connection error); otherwise error.response.status
ErrorStatuses == {0, 500, 401, 404, 403}

\* Set-Cookie headers of a response: absent, or a list of raw header values
NoSetCookie == [present |-> FALSE, list |-> <<>>]

SetCookieChoices ==
    { NoSetCookie,
      [present |-> TRUE, list |-> << <<"a", "=", "1">> >>],
      [present |-> TRUE, list |-> << <<"a", "=", "2", ";", " ", "P">> >>],
      [present |-> TRUE, list |-> << <<"b", "=", "1">> >>] }

\* process.env.MB_COOKIES: unset, or a cookie string with surrounding blanks
EnvChoices == { Null, <<" ", "e", "=", "1">> }

\* response.headers['set-cookie'].map(c => c.split(';')[0].trim()).join('; ')
CookiesFromSetCookie(list) ==
    Join([i \in 1..Len(list) |-> Trim(Split(list[i], ";")[1])], <<";", " ">>)

(***************************************************************************)
(* Calls                                                                   *)
(***************************************************************************)

\* the call that runs makeRequest and the call that runs
\* ensureCookiesAreAssigned on its own (fetchMovieDetailsFromHTML, routes)
Requesters == {"m1"}

Initialisers == {"e1"}

Calls == Requesters \cup Initialisers

NoError == [status |-> -1, req |-> 0]

NoResult ==
    [kind |-> "none", req |-> 0, status |-> 0, cookies |-> Null, setCookie |-> NoSetCookie]

IdleCall ==
    [ fn             |-> "none",     \* "makeRequest" | "ensure"
      pc             |-> "idle",     \* idle, initAwait, await, sleep, returned, thrown
      retries        |-> 0,
      skipCookieInit |-> FALSE,
      attempt        |-> 0,
      host           |-> 0,          \* position in hosts of the request in flight
      lastError      |-> NoError,
      sent           |-> <<>>,       \* the requests of the failover loop, in order
      initSent       |-> 0,          \* cookie-initialisation requests issued
      slept          |-> <<>>,       \* the backoff sleeps, in seconds
      cookie         |-> Null,       \* requestHeaders['Cookie']
      headers        |-> <<>>,       \* options.headers
      requestHeaders |-> <<>>,       \* the headers of every request of the call
      result         |-> NoResult ]

\* [404, 403].includes(error.response.status), mutant: 403 is retried
IsFatalOnly404(status) == status = 404

\* error.response && [404, 403].includes(error.response.status)
IsFatal(status) == status # 0 /\ status \in {404, 403}

\* mutant: the first error is kept
RecordFirstError(previous, error) == IF previous = NoError THEN error ELSE previous

\* lastError = error
RecordError(previous, error) == error

\* mutant: one attempt too few
MoreAttemptsOffByOne(attempt, retries) == attempt + 1 < retries

\* if (attempt < retries): another attempt follows the current one
MoreAttempts(attempt, retries) == attempt < retries

\* requestHeaders['Cookie'] = globalCookies, when the store holds cookies
CookieHeader(store) == IF Falsy(store) THEN Null ELSE store

\* getDefaultHeaders() as makeRequest calls it (headers.js lines 18-25): a
\* header object is a function from its keys to their values
DefaultHeaders ==
    [k \in {"accept", "accept-language", "user-agent", "referer", "Host", "X-client-info"} |->
        CASE k = "accept"          -> "application/json"
          [] k = "accept-language" -> "en-US, en;q=0.5"
          [] k = "user-agent"      -> "mozilla/5.0aoneroom.com/"
          [] k = "referer"         -> HOST_URL
          [] k = "Host"            -> MIRROR_HOSTS[1]
          [] k = "X-client-info"   -> "{\"timezone\":\"Africa/Nairobi\"}"]

\* requestHeaders[key] = value
SetHeader(headers, key, value) ==
    [k \in DOMAIN headers \cup {key} |-> IF k = key THEN value ELSE headers[k]]

\* !requestHeaders[key]: the key is missing; the values of the model are
\* non-empty
Missing(headers, key) == key \notin DOMAIN headers

\* lines 145-162: custom headers are used as they are, with Host added when
\* they have none; without custom headers the defaults are used
RequestHeaders(headers) ==
    IF DOMAIN headers # {}
    THEN (IF Missing(headers, "Host") /\ Missing(headers, "host")
          THEN SetHeader(headers, "Host", MIRROR_HOSTS[1])
          ELSE headers)
    ELSE DefaultHeaders

\* lines 164-168: the cookies of the store are added unless the headers
\* carry a Cookie already
WithCookie(requestHeaders, store) ==
    IF ~Falsy(store) /\ Missing(requestHeaders, "Cookie") /\ Missing(requestHeaders, "cookie")
    THEN SetHeader(requestHeaders, "Cookie", store)
    ELSE requestHeaders

\* the Cookie a header object carries, Null if none
CookieOf(headers) ==
    IF "Cookie" \in DOMAIN headers THEN headers["Cookie"]
    ELSE IF "cookie" \in DOMAIN headers THEN headers["cookie"]
    ELSE Null

\* the headers a caller passes: none, a referer alone, a Cookie of its own
CallerHeaders ==
    { <<>>,
      [k \in {"referer"} |-> HOST_URL \o "movies/movie-abc"],
      [k \in {"Cookie"} |-> <<"c", "=", "1">>] }

\* const response = await axios(config) with proxyHeaders = { ...requestHeaders }
\* (lines 179, 213-231): the request goes out while the store holds `store`
SendRequest(call, attempt, host, store) ==
    [call EXCEPT !.pc = "await", !.attempt = attempt, !.host = host,
                 !.sent = Append(@, [attempt |-> attempt, host |-> host,
                                     url |-> hosts[host], outcome |-> "pending",
                                     headers |-> call.requestHeaders, store |-> store])]

\* what the upstream answered to the request in flight, kept with the request:
\* "ok", "denied" (404 or 403) or "failed" (any other rejection)
Answered(call, outcome) ==
    [call EXCEPT !.sent = [@ EXCEPT ![Len(@)].outcome = outcome]]

\* mutant: a host is skipped after a failure
NextHostSkipping(host) == host + 2

\* for (const baseUrl of hosts): the position tried after position host
NextHost(host) == host + 1

\* makeRequest from the header set-up (line 145) to the first axios call
EnterLoop(call, store) ==
    SendRequest([call EXCEPT
                    !.requestHeaders = WithCookie(RequestHeaders(call.headers), store),
                    !.cookie = CookieOf(WithCookie(RequestHeaders(call.headers), store))],
                0, 1, store)

\* ensureCookiesAreAssigned up to its return or its await (lines 19-49):
\* the new store, the new flag, and whether the init request is awaited
EnsureSync(store, initialized, env) ==
    IF initialized /\ ~Falsy(store)
    THEN [store |-> store, initialized |-> initialized, awaits |-> FALSE, value |-> store]
    ELSE IF ~Falsy(env) /\ ~Falsy(Trim(env))
    THEN [store |-> Trim(env), initialized |-> TRUE, awaits |-> FALSE, value |-> Trim(env)]
    ELSE [store |-> store, initialized |-> initialized, awaits |-> TRUE, value |-> Null]

\* mutant: the fetched cookies are merged into the store
EnsureStoreMerged(store, setCookie) ==
    IF setCookie.present THEN mergeCookies(store, CookiesFromSetCookie(setCookie.list)) ELSE store

\* ensureCookiesAreAssigned after its await (lines 51-74): the new store
EnsureStore(store, setCookie) ==
    IF setCookie.present THEN CookiesFromSetCookie(setCookie.list) ELSE store

\* the value ensureCookiesAreAssigned returns after its await
EnsureValue(setCookie) ==
    IF setCookie.present THEN CookiesFromSetCookie(setCookie.list) ELSE Null

\* mutant: the cookies of the response replace the store
StoreAfterResponseReplaced(store, setCookie) ==
    IF setCookie.present THEN CookiesFromSetCookie(setCookie.list) ELSE store

\* lines 236-260: the new store after a successful response
StoreAfterResponse(store, setCookie) ==
    LET merged == mergeCookies(store, CookiesFromSetCookie(setCookie.list))
    IN IF setCookie.present /\ ~Falsy(merged) THEN merged ELSE store

\* lines 236-260: response.cookies
ResponseCookies(store, setCookie) ==
    LET merged == mergeCookies(store, CookiesFromSetCookie(setCookie.list))
    IN IF setCookie.present
       THEN (IF ~Falsy(merged) THEN merged ELSE store)
       ELSE IF ~Falsy(store) THEN store ELSE Null

(***************************************************************************)
(* Actions of the dispatcher                                               *)
(***************************************************************************)

\* makeRequest is called (lines 126-231, up to the first await)
MakeRequestCall(c) ==
    /\ calls[c].pc = "idle"
    /\ \E retries \in 0..MaxRetries, skip \in BOOLEAN, headers \in CallerHeaders :
          LET call == [calls[c] EXCEPT !.fn = "makeRequest", !.retries = retries,
                                       !.skipCookieInit = skip, !.headers = headers]
              e == EnsureSync(globalCookies, cookiesInitialized, mbCookies)
          IN IF ~skip /\ ~cookiesInitialized
             THEN IF e.awaits
                  THEN /\ calls' = [calls EXCEPT ![c] =
                                      [call EXCEPT !.pc = "initAwait", !.initSent = @ + 1]]
                       /\ UNCHANGED <<globalCookies, cookiesInitialized>>
                  ELSE /\ globalCookies' = e.store
                       /\ cookiesInitialized' = e.initialized
                       /\ calls' = [calls EXCEPT ![c] = EnterLoop(call, e.store)]
             ELSE /\ calls' = [calls EXCEPT ![c] = EnterLoop(call, globalCookies)]
                  /\ UNCHANGED <<globalCookies, cookiesInitialized>>
    /\ UNCHANGED <<mbCookies, mergeVars, decodeVars, routeVars, pageVars>>

\* ensureCookiesAreAssigned is called on its own (lines 19-49)
EnsureCall(c) ==
    /\ calls[c].pc = "idle"
    /\ LET e == EnsureSync(globalCookies, cookiesInitialized, mbCookies)
           call == [calls[c] EXCEPT !.fn = "ensure"]
       IN IF e.awaits
          THEN /\ calls' = [calls EXCEPT ![c] =
                              [call EXCEPT !.pc = "initAwait", !.initSent = @ + 1]]
               /\ UNCHANGED <<globalCookies, cookiesInitialized>>
          ELSE /\ globalCookies' = e.store
               /\ cookiesInitialized' = e.initialized
               /\ calls' = [calls EXCEPT ![c] =
                              [call EXCEPT !.pc = "returned",
                                           !.result = [NoResult EXCEPT !.kind = "cookies",
                                                                       !.cookies = e.value]]]
    /\ UNCHANGED <<mbCookies, mergeVars, decodeVars, routeVars, pageVars>>

\* the cookie-initialisation request answers (lines 51-74); inside makeRequest
\* the call goes on to its first request
InitResponse(c) ==
    /\ calls[c].pc = "initAwait"
    /\ \E ok \in BOOLEAN, setCookie \in SetCookieChoices :
          LET store == IF ok THEN EnsureStore(globalCookies, setCookie) ELSE globalCookies
              value == IF ok THEN EnsureValue(setCookie) ELSE Null
          IN /\ ok \/ setCookie = NoSetCookie
             /\ globalCookies' = store
             /\ cookiesInitialized' = TRUE
             /\ calls' = [calls EXCEPT ![c] =
                            IF calls[c].fn = "makeRequest"
                            THEN EnterLoop(calls[c], store)
                            ELSE [calls[c] EXCEPT !.pc = "returned",
                                                  !.result = [NoResult EXCEPT !.kind = "cookies",
                                                                              !.cookies = value]]]
    /\ UNCHANGED <<mbCookies, mergeVars, decodeVars, routeVars, pageVars>>

\* a request of the failover loop succeeds (lines 231-262)
ResponseOk(c) ==
    /\ calls[c].pc = "await"
    /\ \E setCookie \in SetCookieChoices :
          /\ globalCookies' = StoreAfterResponse(globalCookies, setCookie)
          /\ cookiesInitialized' =
                (cookiesInitialized \/
                 (setCookie.present /\
                  ~Falsy(mergeCookies(globalCookies, CookiesFromSetCookie(setCookie.list)))))
          /\ calls' = [calls EXCEPT ![c] =
                         [Answered(calls[c], "ok") EXCEPT !.pc = "returned",
                            !.result = [kind |-> "response", req |-> Len(calls[c].sent),
                                        status |-> 200,
                                        cookies |-> ResponseCookies(globalCookies, setCookie),
                                        setCookie |-> setCookie]]]
    /\ UNCHANGED <<mbCookies, mergeVars, decodeVars, routeVars, pageVars>>

\* a request of the failover loop fails (lines 263-280): a fatal status is
\* thrown, otherwise the next host is tried, or the attempt ends in a sleep,
\* or the last error is thrown
ResponseError(c) ==
    /\ calls[c].pc = "await"
    /\ \E status \in ErrorStatuses :
          LET error == [status |-> status, req |-> Len(calls[c].sent)]
              call == [Answered(calls[c], IF status \in {404, 403} THEN "denied" ELSE "failed")
                          EXCEPT !.lastError = RecordError(@, error)]
              failed == [kind |-> "error", req |-> call.lastError.req,
                         status |-> call.lastError.status, cookies |-> Null,
                         setCookie |-> NoSetCookie]
          IN calls' = [calls EXCEPT ![c] =
                IF IsFatal(status)
                THEN [call EXCEPT !.pc = "thrown",
                                  !.result = [kind |-> "error", req |-> error.req,
                                              status |-> error.status, cookies |-> Null,
                                              setCookie |-> NoSetCookie]]
                ELSE IF NextHost(call.host) <= Len(hosts)
                THEN SendRequest(call, call.attempt, NextHost(call.host), globalCookies)
                ELSE IF MoreAttempts(call.attempt, call.retries)
                THEN [call EXCEPT !.pc = "sleep", !.slept = Append(@, call.attempt + 1)]
                ELSE [call EXCEPT !.pc = "thrown", !.result = failed]]
    /\ UNCHANGED <<globalCookies, cookiesInitialized, mbCookies, mergeVars, decodeVars, routeVars, pageVars>>

\* the backoff timer fires (line 276): the next attempt starts at the first host
SleepDone(c) ==
    /\ calls[c].pc = "sleep"
    /\ calls' = [calls EXCEPT ![c] = SendRequest(calls[c], calls[c].attempt + 1, 1, globalCookies)]
    /\ UNCHANGED <<globalCookies, cookiesInitialized, mbCookies, mergeVars, decodeVars, routeVars, pageVars>>

(***************************************************************************)
(* JavaScript values of the payload decoder (parser.js)                    *)
(* A value is a record tagged by t.  A number carries h, twice its value,  *)
(* so that the non-integer 0.5 is h = 1; strings carry their characters;   *)
(* an object carries its entries as <<key, value>> pairs in insertion      *)
(* order.  Object keys are atomic strings.                                 *)
(***************************************************************************)

Undefined == [t |-> "undefined"]

NullV == [t |-> "null"]

Num(n) == [t |-> "num", h |-> 2 * n]

Half(h) == [t |-> "num", h |-> h]

Str(chars) == [t |-> "str", s |-> chars]

Arr(items) == [t |-> "arr", items |-> items]

Obj(pairs) == [t |-> "obj", pairs |-> pairs]

IsInteger(v) == v.t = "num" /\ v.h % 2 = 0

\* ToBoolean
Truthy(v) ==
    \/ v.t \in {"arr", "obj"}
    \/ v.t = "num" /\ v.h # 0
    \/ v.t = "str" /\ v.s # <<>>
    \/ v.t = "bool" /\ v.b

\* a || b
Or(a, b) == IF Truthy(a) THEN a ELSE b

HasKey(pairs, key) == \E i \in 1..Len(pairs) : pairs[i][1] = key

Lookup(pairs, key) ==
    IF HasKey(pairs, key)
    THEN pairs[CHOOSE i \in 1..Len(pairs) : pairs[i][1] = key][2]
    ELSE Undefined

\* v.key for a v that is neither null nor undefined
Prop(v, key) == IF v.t = "obj" THEN Lookup(v.pairs, key) ELSE Undefined

\* v.key throws a TypeError
NoProps(v) == v.t \in {"undefined", "null"}

\* the property names "0", "1", ... of array items and string characters
IndexKey(i) == <<"0", "1", "2", "3", "4", "5", "6", "7", "8", "9">>[i + 1]

\* Object.entries(v), also the entries spread by { ...v }
Entries(v) ==
    IF v.t = "obj" THEN v.pairs
    ELSE IF v.t = "arr" THEN [i \in 1..Len(v.items) |-> <<IndexKey(i - 1), v.items[i]>>]
    ELSE IF v.t = "str" THEN [i \in 1..Len(v.s) |-> <<IndexKey(i - 1), Str(<<v.s[i]>>)>>]
    ELSE <<>>

\* { ...base, key: value, ... }: the pairs are assigned in order
Assign(base, pairs) ==
    LET RECURSIVE go(_, _)
        go(i, acc) == IF i > Len(pairs) THEN acc
                      ELSE go(i + 1, SetKey(acc, pairs[i][1], pairs[i][2]))
    IN go(1, base)

(***************************************************************************)
(* resolveValue (parser.js lines 37-67 and 257-277)                        *)
(***************************************************************************)

\* the number of nested resolveValue activations the engine's call stack
\* holds; one more raises RangeError: Maximum call stack size exceeded
CallStackLimit == 12

\* data[index]
At(data, index) ==
    IF IsInteger(index) /\ index.h >= 0 /\ index.h < 2 * Len(data)
    THEN data[(index.h \div 2) + 1]
    ELSE Undefined

\* mutant: index 0 is not taken as a reference
IsIndexDetailPositive(data, v) == v.t = "num" /\ v.h > 0 /\ v.h < 2 * Len(data)

\* lines 40, 58, 75: typeof index === 'number' && index >= 0 && index < data.length
IsIndexDetail(data, v) == v.t = "num" /\ v.h >= 0 /\ v.h < 2 * Len(data)

\* line 260: typeof index === 'number'
IsItemIndexDownloadable(data, v) == v.t = "num"

\* lines 268, 285: typeof val === 'number' && val < data.length
IsFieldIndexDownloadable(data, v) == v.t = "num" /\ v.h < 2 * Len(data)

\* whether an array element is dereferenced, by parser function
ItemRef(variant, data, v) ==
    IF variant = "detail" THEN IsIndexDetail(data, v) ELSE IsItemIndexDownloadable(data, v)

\* whether a map field value is dereferenced, by parser function
FieldRef(variant, data, v) ==
    IF variant = "detail" THEN IsIndexDetail(data, v) ELSE IsFieldIndexDownloadable(data, v)

Max(a, b) == IF a >= b THEN a ELSE b

\* a resolution: the value, the number n of resolveValue calls made, the
\* deepest nesting d of calls reached, and whether a RangeError was thrown
Resolved(value, n, d) == [val |-> value, n |-> n, d |-> d, thrown |-> FALSE]

Overflow(n, d) == [val |-> Undefined, n |-> n, d |-> d, thrown |-> TRUE]

RECURSIVE resolveValue(_, _, _, _)
RECURSIVE ResolveItems(_, _, _, _)
RECURSIVE ResolveFields(_, _, _, _)

\* the calls made so far (acc) followed by one more resolution r
After(acc, r, val) ==
    IF r.thrown THEN Overflow(acc.n + r.n, Max(acc.d, r.d))
    ELSE Resolved(val, acc.n + r.n, Max(acc.d, r.d))

\* line 41 / 261: data[index] for an element taken as a reference; line 43 /
\* 263: the element itself otherwise
ItemTarget(variant, data, v) == IF ItemRef(variant, data, v) THEN At(data, v) ELSE v

\* lines 59, 76 / 269, 286: data[val] for a field value taken as a reference;
\* lines 61, 78 / 271, 288: the value itself otherwise
FieldTarget(variant, data, v) == IF FieldRef(variant, data, v) THEN At(data, v) ELSE v

\* acc with the resolution r of one more array element
AddItem(acc, r) == After(acc, r, IF r.thrown THEN <<>> ELSE Append(acc.val, r.val))

\* acc with the resolution r of one more field, stored under key
AddField(acc, key, r) == After(acc, r, IF r.thrown THEN <<>> ELSE SetKey(acc.val, key, r.val))

\* value.map(index => ...) of lines 39-44 / 259-264, the calls nested at depth
ResolveItems(variant, data, items, depth) ==
    LET RECURSIVE go(_, _)
        go(i, acc) ==
            IF i > Len(items) \/ acc.thrown THEN acc
            ELSE go(i + 1, AddItem(acc, resolveValue(variant, data,
                                         ItemTarget(variant, data, items[i]), depth)))
    IN go(1, Resolved(<<>>, 0, 0))

\* the for (const [key, val] of Object.entries(value)) loops of lines 57-63,
\* 74-80, 267-273 and 284-290
ResolveFields(variant, data, pairs, depth) ==
    LET RECURSIVE go(_, _)
        go(i, acc) ==
            IF i > Len(pairs) \/ acc.thrown THEN acc
            ELSE go(i + 1, AddField(acc, pairs[i][1],
                                    resolveValue(variant, data,
                                        FieldTarget(variant, data, pairs[i][2]), depth)))
    IN go(1, Resolved(<<>>, 0, 0))

\* the activation at depth that made the nested calls r returns their
\* values as an array (line 39 / 259) or as an object (line 64 / 274)
Return(r, depth, asArray) ==
    IF r.thrown THEN Overflow(r.n + 1, Max(depth, r.d))
    ELSE Resolved(IF asArray THEN Arr(r.val) ELSE Obj(r.val), r.n + 1, Max(depth, r.d))

\* function resolveValue(value), entered as the depth-th nested activation
resolveValue(variant, data, value, depth) ==
    IF depth > CallStackLimit THEN Overflow(0, depth)
    ELSE IF value.t = "arr"
    THEN Return(ResolveItems(variant, data, value.items, depth + 1), depth, TRUE)
    ELSE IF value.t = "obj"
    THEN Return(ResolveFields(variant, data, value.pairs, depth + 1), depth, FALSE)
    ELSE Resolved(value, 1, depth)

\* acc with one more extract, its fields resolved as r
AddExtract(acc, r) == After(acc, r, IF r.thrown THEN <<>> ELSE Append(acc.val, Obj(r.val)))

\* the extracts loop (lines 70-83 / 280-293): every top-level map of the
\* payload with its fields resolved; stops at the first RangeError
Extract(variant, data) ==
    LET RECURSIVE go(_, _)
        go(i, acc) ==
            IF i > Len(data) \/ acc.thrown THEN acc
            ELSE IF data[i].t # "obj" THEN go(i + 1, acc)
            ELSE go(i + 1, AddExtract(acc, ResolveFields(variant, data, data[i].pairs, 1)))
    IN go(1, Resolved(<<>>, 0, 0))

(***************************************************************************)
(* Conversions used by the entity assembly                                 *)
(***************************************************************************)

Bool(b) == [t |-> "bool", b |-> b]

NaN == [nan |-> TRUE, h |-> 0]

\* the decimal digits of a natural number
RECURSIVE Digits(_)
Digits(n) == IF n < 10 THEN <<IndexKey(n)>> ELSE Digits(n \div 10) \o <<IndexKey(n % 10)>>

\* String(v), as template literals and array-to-primitive conversion apply it
RECURSIVE ToStringV(_)
ToStringV(v) ==
    IF v.t = "str" THEN v.s
    ELSE IF v.t = "num"
    THEN LET a == IF v.h < 0 THEN -v.h ELSE v.h
             sign == IF v.h < 0 THEN <<"-">> ELSE <<>>
         IN sign \o Digits(a \div 2) \o (IF a % 2 = 1 THEN <<".", "5">> ELSE <<>>)
    ELSE IF v.t = "arr"
    THEN Join([i \in 1..Len(v.items) |->
                  IF NoProps(v.items[i]) THEN <<>> ELSE ToStringV(v.items[i])], <<",">>)
    ELSE IF v.t = "obj"
    THEN <<"[", "o", "b", "j", "e", "c", "t", " ", "O", "b", "j", "e", "c", "t", "]">>
    ELSE IF v.t = "bool" THEN (IF v.b THEN <<"t", "r", "u", "e">> ELSE <<"f", "a", "l", "s", "e">>)
    ELSE IF v.t = "null" THEN <<"n", "u", "l", "l">>
    ELSE <<"u", "n", "d", "e", "f", "i", "n", "e", "d">>

\* ToNumber(v) as the relational operators apply it; the strings of the model
\* hold no digits, so a non-blank string is NaN
RECURSIVE ToNumberV(_)
ToNumberV(v) ==
    IF v.t = "num" THEN [nan |-> FALSE, h |-> v.h]
    ELSE IF v.t = "bool" THEN [nan |-> FALSE, h |-> IF v.b THEN 2 ELSE 0]
    ELSE IF v.t = "null" THEN [nan |-> FALSE, h |-> 0]
    ELSE IF v.t = "str" THEN (IF Trim(v.s) = <<>> THEN [nan |-> FALSE, h |-> 0] ELSE NaN)
    ELSE IF v.t = "arr"
    THEN (IF Len(v.items) = 0 THEN [nan |-> FALSE, h |-> 0]
          ELSE IF Len(v.items) > 1 THEN NaN
          ELSE IF NoProps(v.items[1]) THEN [nan |-> FALSE, h |-> 0]
          ELSE IF v.items[1].t = "obj" THEN NaN
          ELSE ToNumberV(v.items[1]))
    ELSE NaN

\* mutant: the episode numbers counted from 0
EpisodeNumbersFromZero(maxEp) ==
    LET m == ToNumberV(maxEp)
    IN IF m.nan \/ m.h <= 0 THEN <<>> ELSE [i \in 1..(m.h \div 2) |-> Num(i - 1)]

\* the episode numbers pushed by: if (maxEp > 0) for (i = 1; i <= maxEp; i++)
EpisodeNumbers(maxEp) ==
    LET m == ToNumberV(maxEp)
    IN IF m.nan \/ m.h <= 0 THEN <<>> ELSE [i \in 1..(m.h \div 2) |-> Num(i)]

\* a step of the assembly: a value, or a TypeError thrown
Value(v) == [thrown |-> FALSE, val |-> v]

TypeError == [thrown |-> TRUE, val |-> Undefined]

\* the array of the mapped elements, or the TypeError one of them threw
Collect(results) ==
    IF \E i \in 1..Len(results) : results[i].thrown THEN TypeError
    ELSE Value(Arr([i \in 1..Len(results) |-> results[i].val]))

\* res => ({ resolution: res.resolution || res,
\*           quality: res.resolution ? `${res.resolution}p` : res })
MapResolution(res) ==
    IF NoProps(res) THEN TypeError
    ELSE Value(Obj(<< <<"resolution", Or(Prop(res, "resolution"), res)>>,
                      <<"quality", IF Truthy(Prop(res, "resolution"))
                                   THEN Str(ToStringV(Prop(res, "resolution")) \o <<"p">>)
                                   ELSE res>> >>))

\* resolutions.map(res => ...), lines 148-151, 337-340 and 353-356
MapResolutions(resolutions) ==
    IF resolutions.t # "arr" THEN TypeError
    ELSE Collect([i \in 1..Len(resolutions.items) |-> MapResolution(resolutions.items[i])])

\* the object returned for a season, lines 153-160 and 342-348; withSe tells
\* whether it also carries se (line 155)
SeasonEntry(seasonNum, maxEp, resolutions, withSe) ==
    IF resolutions.thrown THEN TypeError
    ELSE Value(Obj(<< <<"season", seasonNum>> >>
                   \o (IF withSe THEN << <<"se", seasonNum>> >> ELSE <<>>)
                   \o << <<"maxEp", maxEp>>,
                         <<"totalEpisodes", maxEp>>,
                         <<"episodeNumbers", Arr(EpisodeNumbers(maxEp))>>,
                         <<"resolutions", resolutions.val>> >>))

\* one element of seasons.map((season, seasonIndex) => ...), lines 134-161 and
\* 323-349; position is seasonIndex + 1
MapSeason(season, position, withSe) ==
    IF NoProps(season) THEN TypeError
    ELSE SeasonEntry(Or(Or(Prop(season, "se"), Prop(season, "season")), Num(position)),
                     Or(Or(Prop(season, "maxEp"), Prop(season, "allEp")), Num(0)),
                     MapResolutions(Or(Prop(season, "resolutions"), Arr(<<>>))),
                     withSe)

\* seasons.map(...)
MapSeasons(seasons, withSe) ==
    IF seasons.t # "arr" THEN TypeError
    ELSE Collect([i \in 1..Len(seasons.items) |-> MapSeason(seasons.items[i], i, withSe)])

(***************************************************************************)
(* Documents: the script tags of the page, in document order               *)
(***************************************************************************)

\* a script tag: its id, its type, whether it has data-nuxt-data, its text
Script(id, type, nuxt, text) == [id |-> id, type |-> type, nuxt |-> nuxt, text |-> text]

\* a script text that is JSON for the value json / that is not JSON
Json(json) == [valid |-> TRUE, json |-> json]

NotJson == [valid |-> FALSE, json |-> Undefined]

\* $(selector).first(): the position of the first element that matches, or
\* 0; matches[i] tells whether the i-th element matches
First(matches) ==
    IF \E i \in 1..Len(matches) : matches[i]
    THEN CHOOSE i \in 1..Len(matches) : matches[i] /\ \A j \in 1..(i - 1) : ~matches[j]
    ELSE 0

\* the first selector of a list that matches a script decides
FirstOf(byId, byAttr, byType) ==
    IF byId # 0 THEN byId ELSE IF byAttr # 0 THEN byAttr ELSE byType

\* lines 20-26: #__NUXT_DATA__, else application/json with data-nuxt-data,
\* else application/json
SelectScriptDetail(scripts) ==
    FirstOf(First([i \in 1..Len(scripts) |-> scripts[i].id = "__NUXT_DATA__"]),
            First([i \in 1..Len(scripts) |->
                     scripts[i].type = "application/json" /\ scripts[i].nuxt]),
            First([i \in 1..Len(scripts) |-> scripts[i].type = "application/json"]))

\* line 247: script[type="application/json"]
SelectScriptDownloadable(scripts) ==
    First([i \in 1..Len(scripts) |-> scripts[i].type = "application/json"])

(***************************************************************************)
(* parseMovieDetailPage and parseDownloadableMetadata                      *)
(***************************************************************************)

\* the outcome of a parser call: the value returned or the message of the
\* Error thrown, with the extracts built and the resolveValue calls made
Returned(value, x) ==
    [ok |-> TRUE, value |-> value, error |-> "", extracts |-> x.val, n |-> x.n, d |-> x.d]

Threw(message, x) ==
    [ok |-> FALSE, value |-> Undefined, error |-> message,
     extracts |-> x.val, n |-> x.n, d |-> x.d]

NoExtracts == Resolved(<<>>, 0, 0)

NotRun == Threw("not run", NoExtracts)

\* key.startsWith('$s') ? key.substring(2) : key, on the keys of the model
StripPrefix(key) ==
    CASE key = "$sresData" -> "resData"
      [] key = "$sdata"    -> "data"
      [] key = "$sstate"   -> "state"
      [] key = "$surl"     -> "url"
      [] OTHER             -> key

\* line 98: extract.state && Array.isArray(extract.state) && extract.state.length > 1
HasState(extract) ==
    /\ Truthy(Prop(extract, "state"))
    /\ Prop(extract, "state").t = "arr"
    /\ Len(Prop(extract, "state").items) > 1

\* line 107: extract.resData || extract.data || extract.$sdata
HasData(extract) ==
    \/ Truthy(Prop(extract, "resData"))
    \/ Truthy(Prop(extract, "data"))
    \/ Truthy(Prop(extract, "$sdata"))

\* lines 97-102: state[1] of the first extract with a state array longer than 1
StateTarget(at, extracts) ==
    IF at = 0 THEN Undefined ELSE Prop(extracts[at], "state").items[2]

\* lines 106-111: resData || data || extract of the first extract with one of
\* resData, data, $sdata
DataTarget(at, extracts) ==
    IF at = 0 THEN Undefined
    ELSE Or(Or(Prop(extracts[at], "resData"), Prop(extracts[at], "data")), extracts[at])

\* lines 105, 115: the first truthy of the three candidates
FirstTruthy(fromState, fromData, first) ==
    IF Truthy(fromState) THEN fromState ELSE IF Truthy(fromData) THEN fromData ELSE first

\* mutant: an entity exposing resData or data is preferred to one with a state
TargetDataDataFirst(extracts) ==
    FirstTruthy(
        DataTarget(First([i \in 1..Len(extracts) |-> HasData(extracts[i])]), extracts),
        StateTarget(First([i \in 1..Len(extracts) |-> HasState(extracts[i])]), extracts),
        extracts[1])

\* lines 96-117: the entity the page data is taken from
TargetData(extracts) ==
    FirstTruthy(
        StateTarget(First([i \in 1..Len(extracts) |-> HasState(extracts[i])]), extracts),
        DataTarget(First([i \in 1..Len(extracts) |-> HasData(extracts[i])]), extracts),
        extracts[1])

\* lines 120-124: the target's entries under their keys without the $s prefix
ProcessedData(targetData) ==
    Assign(<<>>, [i \in 1..Len(Entries(targetData)) |->
                    <<StripPrefix(Entries(targetData)[i][1]), Entries(targetData)[i][2]>>])

\* lines 132-162: processedSeasons
ProcessedSeasons(seasons) ==
    IF Truthy(seasons) /\ seasons.t = "arr" THEN MapSeasons(seasons, TRUE) ELSE Value(Arr(<<>>))

\* lines 165-168: updatedResource
UpdatedResource(resource, processedSeasons) ==
    Obj(Assign(Entries(resource),
               << <<"seasons", IF Len(processedSeasons.items) > 0
                               THEN processedSeasons ELSE Prop(resource, "seasons")>> >>))

\* { ...v, imdbRatingValue, imdbRatingCount }
WithRatings(v, imdbRatingValue, imdbRatingCount) ==
    Obj(Assign(Entries(v), << <<"imdbRatingValue", imdbRatingValue>>,
                              <<"imdbRatingCount", imdbRatingCount>> >>))

\* lines 179-227: the object returned
Entity(processedData, resData, subjectOut, metadataOut, updatedResource, seasons, rating, count) ==
    Obj(Assign(
        << <<"subject", subjectOut>>,
           <<"stars", Or(Prop(resData, "stars"), Arr(<<>>))>>,
           <<"resource", updatedResource>>,
           <<"metadata", metadataOut>>,
           <<"postList", Or(Prop(resData, "postList"), Obj(<<>>))>>,
           <<"forYou", Or(Prop(resData, "forYou"), Arr(<<>>))>>,
           <<"hot", Or(Prop(resData, "hot"), Arr(<<>>))>>,
           <<"shareParam", Or(Prop(resData, "shareParam"), Obj(<<>>))>>,
           <<"pubParam", Or(Prop(resData, "pubParam"), Obj(<<>>))>>,
           <<"url", Or(Prop(resData, "url"), Lookup(processedData, "url"))>>,
           <<"referer", Or(Prop(resData, "referer"), Lookup(processedData, "referer"))>>,
           <<"seasons", seasons>>,
           <<"imdbRating", rating>>,
           <<"imdbRatingCount", count>>,
           <<"resData", Obj(Assign(Entries(resData),
                                   << <<"resource", updatedResource>>,
                                      <<"subject", subjectOut>> >>))>> >>,
        processedData))

\* lines 175-176: subject[key] || metadata[key] || null
Rating(subject, metadata, key) == Or(Or(Prop(subject, key), Prop(metadata, key)), NullV)

\* lines 171-227: subject, metadata and the ratings taken from them
WithSubject(processedData, resData, resource, mapped, subject, metadata) ==
    IF mapped.thrown THEN TypeError
    ELSE Value(Entity(processedData, resData,
             WithRatings(subject, Rating(subject, metadata, "imdbRatingValue"),
                                  Rating(subject, metadata, "imdbRatingCount")),
             WithRatings(metadata, Rating(subject, metadata, "imdbRatingValue"),
                                   Rating(subject, metadata, "imdbRatingCount")),
             UpdatedResource(resource, mapped.val),
             mapped.val,
             Rating(subject, metadata, "imdbRatingValue"),
             Rating(subject, metadata, "imdbRatingCount")))

\* lines 129-162: resource and its seasons
WithResource(processedData, resData, resource) ==
    WithSubject(processedData, resData, resource,
                ProcessedSeasons(Prop(resource, "seasons")),
                Or(Prop(resData, "subject"), Obj(<<>>)),
                Or(Prop(resData, "metadata"), Obj(<<>>)))

\* lines 128-227: the entity assembled from processedData.resData
AssembleEntity(processedData) ==
    WithResource(processedData, Lookup(processedData, "resData"),
                 Or(Prop(Lookup(processedData, "resData"), "resource"), Obj(<<>>)))

\* the parsed payload of a script text, or why JSON.parse / the iteration of
\* the payload throws
PayloadOf(text) ==
    IF ~text.valid THEN [error |-> "Unexpected token", data |-> <<>>]
    ELSE IF text.json.t = "arr" THEN [error |-> "", data |-> text.json.items]
    ELSE IF text.json.t = "str" THEN [error |-> "No extractable data found", data |-> <<>>]
    ELSE [error |-> "data is not iterable", data |-> <<>>]

\* lines 179-227 return the entity unless the assembly threw
DetailOfEntity(entity, x) ==
    IF entity.thrown THEN Threw("TypeError", x) ELSE Returned(entity.val, x)

\* lines 127-230
DetailOfProcessed(processedData, x) ==
    IF Truthy(Lookup(processedData, "resData"))
    THEN DetailOfEntity(AssembleEntity(processedData), x)
    ELSE Returned(Obj(processedData), x)

\* lines 85-124
DetailOfExtracts(x, asWhole) ==
    IF x.thrown THEN Threw("Maximum call stack size exceeded", x)
    ELSE IF Len(x.val) = 0 THEN Threw("No extractable data found", x)
    ELSE IF asWhole THEN Returned(x.val[1], x)
    ELSE DetailOfProcessed(ProcessedData(TargetData(x.val)), x)

\* lines 33-83
DetailOfPayload(payload, asWhole) ==
    IF payload.error # "" THEN Threw(payload.error, NoExtracts)
    ELSE DetailOfExtracts(Extract("detail", payload.data), asWhole)

\* lines 20-32
DetailOfScript(doc, at, asWhole) ==
    IF at = 0 THEN Threw("No JSON data found in page", NoExtracts)
    ELSE DetailOfPayload(PayloadOf(doc[at].text), asWhole)

\* function parseMovieDetailPage(html, whole = false)
parseMovieDetailPage(doc, asWhole) == DetailOfScript(doc, SelectScriptDetail(doc), asWhole)

\* lines 358-360: the subtitle languages
SubtitleLanguages(subtitles) ==
    IF ~Truthy(subtitles) THEN Value(Arr(<<>>))
    ELSE IF subtitles.t # "str" THEN TypeError
    ELSE Value(Arr([i \in 1..Len(Split(subtitles.s, ",")) |->
                      Str(Trim(Split(subtitles.s, ",")[i]))]))

\* lines 362-372: the object returned
Metadata(subject, resource, seasons, qualities, languages) ==
    Obj(<< <<"subjectId", Or(Prop(subject, "subjectId"), Prop(resource, "subjectId"))>>,
           <<"subjectType", Or(Prop(subject, "subjectType"), Prop(resource, "subjectType"))>>,
           <<"title", Or(Prop(subject, "title"), Prop(resource, "title"))>>,
           <<"detailPath", Or(Prop(subject, "detailPath"), Prop(resource, "detailPath"))>>,
           <<"seasons", seasons>>,
           <<"episodes", Arr(<<>>)>>,
           <<"availableResolutions", qualities>>,
           <<"subtitleLanguages", languages>>,
           <<"hasResource", Or(Or(Prop(resource, "hasResource"), Prop(subject, "hasResource")),
                               Bool(FALSE))>> >>)

\* lines 318-372, the statements in order: the first TypeError ends the call
MetadataOfParts(subject, resource, seasons, qualities, languages, x) ==
    IF seasons.thrown \/ qualities.thrown \/ languages.thrown THEN Threw("TypeError", x)
    ELSE Returned(Metadata(subject, resource, seasons.val, qualities.val, languages.val), x)

\* lines 314-360
MetadataOfResource(subject, resource, x) ==
    MetadataOfParts(subject, resource,
        MapSeasons(Or(Prop(resource, "seasons"), Arr(<<>>)), FALSE),
        MapResolutions(Or(Prop(resource, "resolutions"), Arr(<<>>))),
        SubtitleLanguages(Or(Or(Prop(subject, "subtitles"), Prop(resource, "subtitles")),
                             Str(<<>>))),
        x)

\* lines 314-315
MetadataOfResData(resData, x) ==
    MetadataOfResource(Or(Or(Prop(resData, "subject"), Prop(resData, "metadata")), Obj(<<>>)),
                       Or(Prop(resData, "resource"), resData), x)

\* line 302: extract.resData || extract.resource || extract.subject
IsMain(extract) ==
    \/ Truthy(Prop(extract, "resData"))
    \/ Truthy(Prop(extract, "resource"))
    \/ Truthy(Prop(extract, "subject"))

\* line 313: resData = mainData.resData || mainData
MetadataOfMain(mainData, x) == MetadataOfResData(Or(Prop(mainData, "resData"), mainData), x)

\* lines 300-310: the first extract with resData, resource or subject, else
\* the first extract
MainData(extracts, at) == IF at = 0 THEN extracts[1] ELSE extracts[at]

\* lines 295-313
MetadataOfExtracts(x) ==
    IF x.thrown THEN Threw("Maximum call stack size exceeded", x)
    ELSE IF Len(x.val) = 0 THEN Threw("No extractable data found", x)
    ELSE MetadataOfMain(MainData(x.val, First([i \in 1..Len(x.val) |-> IsMain(x.val[i])])), x)

\* lines 254-293
MetadataOfPayload(payload) ==
    IF payload.error # "" THEN Threw(payload.error, NoExtracts)
    ELSE MetadataOfExtracts(Extract("downloadable", payload.data))

\* lines 247-253
MetadataOfScript(doc, at) ==
    IF at = 0 THEN Threw("No JSON data found in page", NoExtracts)
    ELSE MetadataOfPayload(PayloadOf(doc[at].text))

\* function parseDownloadableMetadata(html)
parseDownloadableMetadata(doc) == MetadataOfScript(doc, SelectScriptDownloadable(doc))

(***************************************************************************)
(* Header profiles (utils/headers.js)                                      *)
(***************************************************************************)

DOWNLOAD_REQUEST_REFERER == "https://fmoviesunblocked.net/"

\* getDefaultHeaders(referer): the headers the profile is told apart by
getDefaultHeaders(referer) ==
    [ profile |-> "default",
      Accept  |-> "application/json",
      Referer |-> IF referer = "" THEN HOST_URL ELSE referer,
      Origin  |-> "",
      Range   |-> Null,
      Cookie  |-> Null ]

\* getDownloadHeaders(detailPath): referer is `${HOST_URL}movies/${detailPath}`
getDownloadHeaders(detailPath) ==
    [ profile |-> "download",
      Accept  |-> "text/html,application/xhtml+xml,application/xml;q=0.9,*/*;q=0.8",
      Referer |-> IF detailPath = "" THEN HOST_URL ELSE HOST_URL \o "movies/" \o detailPath,
      Origin  |-> "",
      Range   |-> Null,
      Cookie  |-> Null ]

\* mutant: the media profile with the referer of the content host
getMediaDownloadHeadersHostReferer(downloadUrl, cookies, range) ==
    [ profile |-> "media",
      Accept  |-> "*/*",
      Referer |-> HOST_URL,
      Origin  |-> SELECTED_HOST,
      Range   |-> range,
      Cookie  |-> IF Falsy(cookies) THEN Null ELSE cookies ]

\* getMediaDownloadHeaders(downloadUrl, cookies, range); SELECTED_HOST has no
\* trailing slash to remove
getMediaDownloadHeaders(downloadUrl, cookies, range) ==
    [ profile |-> "media",
      Accept  |-> "*/*",
      Referer |-> DOWNLOAD_REQUEST_REFERER,
      Origin  |-> SELECTED_HOST,
      Range   |-> range,
      Cookie  |-> IF Falsy(cookies) THEN Null ELSE cookies ]

(***************************************************************************)
(* Byte ranges (routes/download.js lines 25, 53-66)                        *)
(***************************************************************************)

\* String.prototype.includes(pattern)
Includes(s, pattern) ==
    \E i \in 1..(Len(s) - Len(pattern) + 1) : SubSeq(s, i, i + Len(pattern) - 1) = pattern

\* String.prototype.replace(pattern, ''): the first occurrence is removed
RemoveFirst(s, pattern) ==
    IF ~Includes(s, pattern) THEN s
    ELSE LET at == CHOOSE i \in 1..(Len(s) - Len(pattern) + 1) :
                      /\ SubSeq(s, i, i + Len(pattern) - 1) = pattern
                      /\ \A j \in 1..(i - 1) : SubSeq(s, j, j + Len(pattern) - 1) # pattern
         IN SubSeq(s, 1, at - 1) \o SubSeq(s, at + Len(pattern), Len(s))

DigitChars == <<"0", "1", "2", "3", "4", "5", "6", "7", "8", "9">>

IsDigit(ch) == \E d \in 1..10 : DigitChars[d] = ch

DigitValue(ch) == (CHOOSE d \in 1..10 : DigitChars[d] = ch) - 1

\* parseInt(s, 10) for a string that starts with a digit: the value of its
\* leading digits
parseInt(s) ==
    LET RECURSIVE go(_, _)
        go(i, acc) == IF i > Len(s) \/ ~IsDigit(s[i]) THEN acc
                      ELSE go(i + 1, 10 * acc + DigitValue(s[i]))
    IN go(1, 0)

BytesEquals == <<"b", "y", "t", "e", "s", "=">>

\* the Range header "bytes=<start>-<end>", "bytes=<start>-" when end is -1
RangeHeader(start, end) ==
    BytesEquals \o Digits(start) \o <<"-">> \o (IF end < 0 THEN <<>> ELSE Digits(end))

\* `bytes ${start}-${end}/${contentLength}`
ContentRange(start, end, total) ==
    <<"b", "y", "t", "e", "s", " ">> \o Digits(start) \o <<"-">> \o Digits(end)
        \o <<"/">> \o total

\* parseInt(s, 10) is NaN for a string that does not start with a digit
IsNaN(s) == s = <<>> \/ ~IsDigit(s[1])

\* lines 55-58: start, end and chunksize from the client's Range header and
\* the Content-Length of the upstream response; `nan` tells that start, and
\* with it chunksize, is NaN
ClientRange(clientRange, contentLength) ==
    LET parts == Split(RemoveFirst(clientRange, BytesEquals), "-")
        start == parseInt(parts[1])
        end == IF Len(parts) > 1 /\ parts[2] # <<>> THEN parseInt(parts[2])
               ELSE parseInt(contentLength) - 1
    IN [start |-> start, end |-> end, chunksize |-> end - start + 1,
        nan |-> IsNaN(parts[1])]

(***************************************************************************)
(* The streaming routes: the upstream side and the client-facing response  *)
(***************************************************************************)

MaxBytes == 3

\* a template literal ${n} for an integer
NumberString(n) == IF n < 0 THEN <<"-">> \o Digits(0 - n) ELSE Digits(n)

\* what the CDN answers to a GET with a Range header on a resource of `size`
\* bytes: the range that is served (the last n bytes for the suffix form
\* bytes=-n), a range that cannot be satisfied (416), or the whole resource
\* when the range is malformed (RFC 9110, 14.1.2)
Serve(range, size) ==
    LET parts == Split(RemoveFirst(range, BytesEquals), "-")
        start == parseInt(parts[1])
        open == Len(parts) < 2 \/ parts[2] = <<>>
        last == IF open THEN size - 1 ELSE parseInt(parts[2])
        to == IF last < size THEN last ELSE size - 1
        first == IF last < size THEN size - last ELSE 0
    IN IF parts[1] = <<>> /\ ~open
       THEN (IF last = 0
             THEN [status |-> 416, from |-> 0, to |-> 0 - 1, contentLength |-> Null]
             ELSE [status |-> 206, from |-> first, to |-> size - 1,
                   contentLength |-> Digits(size - first)])
       ELSE IF IsNaN(parts[1]) \/ (~open /\ last < start)
       THEN [status |-> 200, from |-> 0, to |-> size - 1, contentLength |-> Digits(size)]
       ELSE IF start >= size
       THEN [status |-> 416, from |-> 0, to |-> 0 - 1, contentLength |-> Null]
       ELSE [status |-> 206, from |-> start, to |-> to,
             contentLength |-> Digits(to - start + 1)]

\* an upstream request: "pending" until it is answered; a stream response is
\* "open" until it has "ended", has "errored" or was "closed" (aborted)
Upstream(method, headers) ==
    [method |-> method, headers |-> headers, state |-> "pending", status |-> 0,
     from |-> 0, to |-> 0 - 1, pos |-> 0, piped |-> FALSE]

\* the stream of a successful GET: response.data
Opened(up, served) ==
    [up EXCEPT !.state = "open", !.status = served.status, !.from = served.from,
               !.to = served.to, !.pos = served.from]

\* a request that axios rejects; the body of an error response is not read
Failed(up, status) == [up EXCEPT !.state = "errored", !.status = status]

\* a HEAD request that is answered: there is no body to stream
Probed(up, status) ==
    [up EXCEPT !.state = IF status = 0 THEN "errored" ELSE "ended", !.status = status]

\* `bytes=${start}-${end}` (download.js line 66)
RangeTemplate(start, end) ==
    BytesEquals \o NumberString(start) \o <<"-">> \o NumberString(end)

\* `${start}` and `${chunksize}`: NaN is written as "NaN"
ShowNumber(nan, n) == IF nan THEN <<"N", "a", "N">> ELSE NumberString(n)

\* `bytes ${start}-${end}/${contentLength}` (download.js line 61) for the
\* numbers of lines 55-58
ContentRangeOf(r, total) ==
    IF r.nan
    THEN <<"b", "y", "t", "e", "s", " ">> \o ShowNumber(TRUE, 0) \o <<"-">> \o Digits(r.end)
             \o <<"/">> \o total
    ELSE ContentRange(r.start, r.end, total)

\* `bytes=${start}-${end}` (download.js line 66) for the numbers of lines
\* 55-58
RangeTemplateOf(r) ==
    IF r.nan THEN BytesEquals \o ShowNumber(TRUE, 0) \o <<"-">> \o NumberString(r.end)
    ELSE RangeTemplate(r.start, r.end)

\* res before the handler has touched it
FreshResponse ==
    [status |-> 200, headersSent |-> FALSE, body |-> "none", error |-> "",
     ContentRange |-> Null, AcceptRanges |-> Null, ContentLength |-> Null,
     relayed |-> <<>>, state |-> "open"]

\* res.status(status).json({ error, ... })
JsonResponse(res, status, error) ==
    [res EXCEPT !.status = status, !.headersSent = TRUE, !.body = "json",
                !.error = error, !.ContentLength = <<"j", "s", "o", "n">>,
                !.state = IF res.state = "open" THEN "ended" ELSE res.state]

\* a response whose client has gone takes no more writes
Writable(res, who) == res.state = "open" /\ who = "connected"

\* mutant: only the signature marker counts
isExpiredSignOnly(url) == Includes(url, <<"s", "i", "g", "n", "=">>)

\* url.includes('sign=') || url.includes('&t=')
isExpired(url) ==
    Includes(url, <<"s", "i", "g", "n", "=">>) \/ Includes(url, <<"&", "t", "=">>)

\* mutant: every probe that does not answer 200 ends the request
ProbeOutcomeAuthoritative(status, url) ==
    IF status = 200 THEN [status |-> 0, error |-> "continue"]
    ELSE [status |-> IF status = 0 THEN 500 ELSE status, error |-> "File validation failed"]

\* lines 1679-1722: the answer of the route to a HEAD status below 500
\* (validateStatus), or "continue"
ProbeOutcome(status, url) ==
    IF status = 404 THEN [status |-> 404, error |-> "File not found on CDN"]
    ELSE IF status = 403
    THEN (IF isExpired(url) THEN [status |-> 410, error |-> "Download URL expired"]
          ELSE [status |-> 403, error |-> "Region restriction"])
    ELSE IF status = 401 THEN [status |-> 410, error |-> "Download URL expired"]
    ELSE IF status >= 400 /\ status < 500
    THEN [status |-> status, error |-> "File validation failed"]
    ELSE [status |-> 0, error |-> "continue"]

\* lines 1799-1827: error.statusCode of the object thrown after the main GET
\* has failed (0: the property is not set)
ThrownStatusCode(status, url) ==
    IF status = 404 THEN 404
    ELSE IF status = 403 THEN (IF isExpired(url) THEN 410 ELSE 403)
    ELSE IF status = 401 THEN 410
    ELSE 0

\* lines 1934-1958: the answer of the outer catch; status 0 stands for an
\* error without error.response
CatchOutcome(statusCode, status, url) ==
    [status |-> IF statusCode # 0 THEN statusCode ELSE IF status # 0 THEN status ELSE 500,
     error |-> IF status = 404 THEN "File not found on CDN"
               ELSE IF status = 403
               THEN (IF ~Falsy(url) /\ isExpired(url) THEN "Download URL expired"
                     ELSE "Region restriction")
               ELSE IF status = 401 THEN "Download URL expired"
               ELSE "Failed to proxy download"]

\* inbound urls: missing, plain, signed, and with an expiry parameter
PlainUrl == <<"u">>

SignedUrl == <<"u", "?", "s", "i", "g", "n", "=", "1">>

TimedUrl == <<"u", "?", "k", "=", "1", "&", "t", "=", "1">>

Urls == { <<>>, PlainUrl, SignedUrl, TimedUrl }

\* the Range header "bytes=-<n>": the last n bytes
SuffixRange(n) == BytesEquals \o <<"-">> \o Digits(n)

\* the Range headers a client sends for a resource of `size` bytes: none,
\* bytes=a-b with 0 <= a <= b < size, bytes=a-, and bytes=-n with
\* 1 <= n <= size
ClientRanges(size) ==
    {Null} \cup { RangeHeader(a, 0 - 1) : a \in 0..(size - 1) }
           \cup { SuffixRange(n) : n \in 1..size }
           \cup { RangeHeader(r[1], r[2]) :
                     r \in { p \in (0..(size - 1)) \X (0..(size - 1)) : p[1] <= p[2] } }

QueryCookies == { Null, <<"q", "=", "1">> }

StreamRoutes == { "download", "download-subtitle", "download-proxy" }

\* the requests are drawn without detailPath and subjectId, so the file name
\* of /download-proxy comes from the url (lines 1851, 1893-1896)
StreamRequests(size) ==
    [ route : StreamRoutes, url : Urls, range : ClientRanges(size), cookies : QueryCookies ]

\* statuses a HEAD probe is answered with; 0 stands for no response at all
ProbeStatuses == {200, 404, 403, 401, 405, 500, 0}

NoRequest == [route |-> "", url |-> <<>>, range |-> Null, cookies |-> Null]

(***************************************************************************)
(* The download-metadata route and its frontend client: candidates         *)
(* A download entry carries download.url and download.resource; a url is   *)
(* Null when the property is missing; resource.hasResource is "true",      *)
(* "false" or "absent".                                                    *)
(***************************************************************************)

MaxDownloads == 2

MaxSeason == 1

NoResource == [present |-> FALSE, url |-> Null, hasResource |-> "absent"]

Resource(url, flag) == [present |-> TRUE, url |-> url, hasResource |-> flag]

Download(resolution, url, resource) ==
    [resolution |-> resolution, url |-> url, resource |-> resource]

\* download.resource?.hasResource !== false
hasResourceFlag(download) ==
    ~(download.resource.present /\ download.resource.hasResource = "false")

\* !!download.resource?.url
hasResourceUrl(download) == download.resource.present /\ ~Falsy(download.resource.url)

\* !!download.url
hasDirectUrl(download) == ~Falsy(download.url)

hasValidUrl(download) == hasResourceUrl(download) \/ hasDirectUrl(download)

\* mutant: the availability flag alone admits an entry
isValidByFlag(download) == hasResourceFlag(download) \/ hasDirectUrl(download)

\* part_004 lines 1308-1316
isValid(download) ==
    hasValidUrl(download) /\ (hasResourceFlag(download) \/ hasDirectUrl(download))

\* allDownloads.filter(...) (lines 1307-1328)
RECURSIVE FilterDownloads(_)
FilterDownloads(all) ==
    IF all = <<>> THEN <<>>
    ELSE (IF isValid(Head(all)) THEN <<Head(all)>> ELSE <<>>) \o FilterDownloads(Tail(all))

\* mutant: the direct url is taken before the resource url
mediaUrlDirectFirst(download) ==
    IF hasDirectUrl(download) THEN download.url
    ELSE IF hasResourceUrl(download) THEN download.resource.url
    ELSE Null

\* api.js lines 229-255: the entry the frontend keeps for a download
mediaUrl(download) ==
    IF hasResourceUrl(download) THEN download.resource.url
    ELSE IF hasDirectUrl(download) THEN download.url
    ELSE Null

MapDownload(download) ==
    [resolution |-> download.resolution, url |-> mediaUrl(download),
     hasResource |-> hasResourceFlag(download), hasDirectUrl |-> hasDirectUrl(download)]

\* api.js lines 259-265
isValidMapped(download) ==
    ~Falsy(download.url) /\ (download.hasResource \/ download.hasDirectUrl)

\* api.js lines 229-291: map, filter, and drop the two helper fields
RECURSIVE FinalDownloads(_)
FinalDownloads(all) ==
    IF all = <<>> THEN <<>>
    ELSE (IF isValidMapped(MapDownload(Head(all)))
          THEN << [resolution |-> Head(all).resolution, url |-> mediaUrl(Head(all))] >>
          ELSE <<>>) \o FinalDownloads(Tail(all))

\* an answer of the upstream API: "nested" { code, message, data: { downloads } },
\* "root" { downloads }, "nodownloads" { code, message, data: {} }, "none" {},
\* "error" { code, message } with a code other than 0
ApiResponse(shape, code, message, downloads) ==
    [shape |-> shape, code |-> code, message |-> message, downloads |-> downloads]

\* responseData.data?.downloads || responseData.downloads || [] (line 1224)
allDownloads(responseData) ==
    IF responseData.shape \in {"nested", "root"} THEN responseData.downloads ELSE <<>>

\* data.hasResource = downloads.length > 0 (line 1338)
HasResourceOf(downloads) == IF Len(downloads) > 0 THEN "true" ELSE "false"

\* lines 1333-1373: the body the route answers with
MetaBody(responseData) ==
    IF responseData.shape \in {"nested", "nodownloads"}
    THEN [code |-> responseData.code, message |-> responseData.message,
          downloads |-> FilterDownloads(allDownloads(responseData)),
          hasResource |-> HasResourceOf(FilterDownloads(allDownloads(responseData)))]
    ELSE IF responseData.shape = "root"
    THEN [code |-> 0, message |-> "ok",
          downloads |-> FilterDownloads(allDownloads(responseData)),
          hasResource |-> "absent"]
    ELSE [code |-> 0, message |-> "ok", downloads |-> <<>>, hasResource |-> "false"]

\* the entries the upstream lists are drawn from
Resources ==
    { NoResource, Resource(<<"r">>, "false"), Resource(<<"r">>, "true"), Resource(<<>>, "true") }

\* every resource with a direct url and without one, and the empty direct
\* url with no resource url
DownloadEntries ==
    { Download(720, url, resource) : url \in { Null, <<"d">> }, resource \in Resources }
        \cup { Download(720, <<>>, resource) : resource \in { NoResource, Resource(<<>>, "true") } }

DownloadLists ==
    UNION { [1..n -> DownloadEntries] : n \in 0..MaxDownloads }

ApiResponses ==
    { ApiResponse("nested", 0, "ok", list) : list \in DownloadLists }
        \cup { ApiResponse("root", 0, "", list) : list \in DownloadLists }
        \cup { ApiResponse("nodownloads", 0, "ok", <<>>),
               ApiResponse("none", 0, "", <<>>),
               ApiResponse("error", 1, "fail", <<>>) }

\* the Set-Cookie headers of the answers to a route's requests
RouteSetCookies == { NoSetCookie, [present |-> TRUE, list |-> << <<"a", "=", "1">> >>] }

\* the answers to the play request, which the route passes on as they are
PlayResponses == { api \in ApiResponses : api.downloads = <<>> }

(***************************************************************************)
(* Season and episode of a request (part_004 lines 1115-1126, 1411-1416,   *)
(* api.js lines 194-198): JavaScript numbers and strings                   *)
(***************************************************************************)

\* a string that parseInt reads a number from
IsNumeral(s) == s # <<>> /\ IsDigit(s[1])

\* parseInt(v) || 0
ParseIntOrZero(v) == IF IsNumeral(ToStringV(v)) THEN Num(parseInt(ToStringV(v))) ELSE Num(0)

\* v === 0 || parseInt(v) === 0
IsZeroEpisode(v) ==
    v = Num(0) \/ (IsNumeral(ToStringV(v)) /\ parseInt(ToStringV(v)) = 0)

\* a destructuring default: let { se = 0 } = req.query
OrZero(v) == IF v = Undefined THEN Num(0) ELSE v

\* new URLSearchParams(params): every value becomes a string
QueryParam(v) == Str(ToStringV(v))

\* the seasons and episodes a caller passes to the frontend client
FrontendNumbers == { Undefined } \cup { Num(n) : n \in 0..MaxSeason }

\* the se and ep of a query string
QueryNumbers == { Undefined } \cup { Str(Digits(n)) : n \in 0..MaxSeason }

(***************************************************************************)
(* Inputs of the decoder: pages and their payloads                         *)
(***************************************************************************)

\* the longest drawn payload
MaxLen == 3

\* the numbers a payload position may hold: -1, 0, ..., MaxLen and 0.5
Numbers == { Num(n) : n \in -1..MaxLen } \cup { Half(1) }

\* the first entry of a drawn payload: a map with one field
FirstEntries == { Obj(<< <<"k", x>> >>) : x \in Numbers }

\* the further entries: a string, a one-element array, a one-field map
Elements ==
    {Str(<<"x">>)}
        \cup { Arr(<<x>>) : x \in Numbers }
        \cup { Obj(<< <<"j", x>> >>) : x \in Numbers }

RawPayloads ==
    UNION { { <<first>> \o rest : first \in FirstEntries,
                                  rest \in [1..(len - 1) -> Elements] } : len \in 1..MaxLen }

\* a detail page of a series: state -> ["Reactive", page] -> resData ->
\* subject / resource -> seasons
SeriesPayload ==
    << Obj(<< <<"state", Num(1)>> >>),
       Arr(<<Str(<<"R">>), Num(2)>>),
       Obj(<< <<"$sresData", Num(3)>>, <<"$surl", Num(6)>> >>),
       Obj(<< <<"subject", Num(4)>>, <<"resource", Num(5)>> >>),
       Obj(<< <<"title", Num(6)>>, <<"subtitles", Num(6)>> >>),
       Obj(<< <<"seasons", Num(7)>> >>),
       Str(<<"x", ",", " ", "y">>),
       Arr(<<Num(8)>>),
       Obj(<< <<"maxEp", Num(9)>>, <<"resolutions", Num(10)>> >>),
       Num(2),
       Arr(<<Num(11), Num(6)>>),
       Obj(<< <<"resolution", Num(9)>> >>) >>

\* a page whose resData has none of subject, resource, metadata
BareResDataPayload ==
    << Obj(<< <<"resData", Num(1)>> >>), Obj(<< <<"k", Num(2)>> >>), Str(<<"x">>) >>

\* a page whose seasons hold a null entry
NullSeasonPayload ==
    << Obj(<< <<"resData", Num(1)>> >>),
       Obj(<< <<"resource", Num(2)>> >>),
       Obj(<< <<"seasons", Num(3)>> >>),
       Arr(<<NullV>>) >>

\* the episodes a season of the drawn pages has at most
MaxEpisodes == 3

\* the fields a season holds its episode count in: maxEp, allEp, or allEp
\* next to a maxEp of 0
CountFields == {"maxEp", "allEp", "both"}

\* a season without an episode list, its count held by the entry `ref`
CountedSeason(field, ref) ==
    IF field = "both" THEN Obj(<< <<"maxEp", Num(10)>>, <<"allEp", Num(ref)>> >>)
    ELSE Obj(<< <<field, Num(ref)>> >>)

\* a page of a series with two seasons of n and m episodes: state ->
\* ["Reactive", page] -> resData -> resource -> seasons
SeasonPayload(field, n, m) ==
    << Obj(<< <<"state", Num(1)>> >>),
       Arr(<<Str(<<"R">>), Num(2)>>),
       Obj(<< <<"$sresData", Num(3)>> >>),
       Obj(<< <<"resource", Num(4)>> >>),
       Obj(<< <<"seasons", Num(5)>> >>),
       Arr(<<Num(6), Num(7)>>),
       CountedSeason(field, 8),
       CountedSeason(field, 9),
       Num(n),
       Num(m),
       Num(0) >>

SeasonPayloads ==
    { SeasonPayload(field, n, m) : field \in CountFields,
                                   n \in 0..MaxEpisodes, m \in 0..MaxEpisodes }

\* where a page holds the ratings of its title
RatingPlaces == {"subject", "metadata", "both", "neither"}

\* a detail page with the ratings on subject ("8", 5), on metadata ("7", 4),
\* on both or on neither: state -> ["Reactive", page] -> resData ->
\* subject / metadata
RatingPayload(place) ==
    << Obj(<< <<"state", Num(1)>> >>),
       Arr(<<Str(<<"R">>), Num(2)>>),
       Obj(<< <<"$sresData", Num(3)>> >>),
       Obj(<< <<"subject", Num(4)>>, <<"metadata", Num(5)>> >>),
       IF place \in {"subject", "both"}
       THEN Obj(<< <<"title", Num(10)>>, <<"imdbRatingValue", Num(6)>>,
                   <<"imdbRatingCount", Num(7)>> >>)
       ELSE Obj(<< <<"title", Num(10)>> >>),
       IF place \in {"metadata", "both"}
       THEN Obj(<< <<"imdbRatingValue", Num(8)>>, <<"imdbRatingCount", Num(9)>> >>)
       ELSE Obj(<< <<"description", Num(10)>> >>),
       Str(<<"8">>),
       Num(5),
       Str(<<"7">>),
       Num(4),
       Str(<<"x">>) >>

RatingPayloads == { RatingPayload(place) : place \in RatingPlaces }

\* the forms of the subtitle languages of a subject: a comma-joined string,
\* an array of names, or no field
SubtitleForms == {"string", "array", "absent"}

\* a page whose subject names the subtitle languages " en" and "fr " in the
\* given form: resData -> subject -> subtitles
SubtitlePayload(form) ==
    << Obj(<< <<"resData", Num(1)>> >>),
       Obj(<< <<"subject", Num(2)>> >>),
       CASE form = "string" -> Obj(<< <<"title", Num(6)>>, <<"subtitles", Num(3)>> >>)
         [] form = "array"  -> Obj(<< <<"title", Num(6)>>, <<"subtitles", Num(7)>> >>)
         [] OTHER           -> Obj(<< <<"title", Num(6)>> >>),
       Str(<<" ", "e", "n", ",", "f", "r", " ">>),
       Str(<<" ", "e", "n">>),
       Str(<<"f", "r", " ">>),
       Str(<<"x">>),
       Arr(<<Num(4), Num(5)>>) >>

SubtitlePayloads == { SubtitlePayload(form) : form \in SubtitleForms }

\* a page whose first entity exposes resData and whose second entity has
\* the state
PriorityPayload ==
    << Obj(<< <<"resData", Num(2)>> >>),
       Obj(<< <<"state", Num(3)>> >>),
       Obj(<< <<"k", Num(5)>> >>),
       Arr(<<Str(<<"R">>), Num(4)>>),
       Obj(<< <<"$surl", Num(5)>>, <<"j", Num(5)>> >>),
       Str(<<"x">>) >>

\* a page whose state array holds null, followed by an entity exposing data
NullStatePayload ==
    << Obj(<< <<"state", Num(1)>> >>),
       Arr(<<Str(<<"R">>), NullV>>),
       Obj(<< <<"data", Num(3)>> >>),
       Obj(<< <<"$surl", Num(4)>> >>),
       Str(<<"x">>) >>

\* a page whose data is under data, and one with a state too short
DataPayload ==
    << Obj(<< <<"state", Num(1)>>, <<"data", Num(2)>> >>),
       Arr(<<Str(<<"R">>)>>),
       Obj(<< <<"$sdata", Num(3)>>, <<"metadata", Num(3)>> >>),
       Str(<<"x">>) >>

\* a page whose map comes after the scalar it names
LeadingScalarPayload == << Str(<<"x">>), Obj(<< <<"k", Num(0)>> >>) >>

\* a page whose referenced array holds an array and a map
NestedPayload ==
    << Obj(<< <<"k", Num(1)>> >>),
       Arr(<< Arr(<<Num(2)>>), Obj(<< <<"j", Num(2)>> >>), NullV >>),
       Str(<<"x">>) >>

\* payloads without a map entry
NoMapPayloads == { <<>>, <<Str(<<"x">>)>>, <<Arr(<<Num(0)>>), Num(0)>> }

FixturePayloads ==
    {SeriesPayload, BareResDataPayload, NullSeasonPayload, DataPayload, LeadingScalarPayload,
     NestedPayload, PriorityPayload, NullStatePayload}
        \cup NoMapPayloads

\* a page with one script of type application/json holding the payload
JsonPage(payload) == << Script("", "application/json", FALSE, Json(Arr(payload))) >>

\* pages without a usable script, and pages with several scripts
OtherPages ==
    { <<>>,
      << Script("", "text/javascript", FALSE, NotJson) >>,
      << Script("", "application/json", FALSE, NotJson) >>,
      << Script("", "application/json", FALSE, Json(Obj(<< <<"k", Num(0)>> >>))) >>,
      << Script("", "application/json", FALSE, Json(Str(<<"x">>))) >>,
      << Script("__NUXT_DATA__", "text/plain", FALSE, Json(Arr(BareResDataPayload))) >>,
      << Script("", "application/json", FALSE, Json(Arr(DataPayload))),
         Script("__NUXT_DATA__", "application/json", TRUE, Json(Arr(SeriesPayload))) >>,
      << Script("", "application/json", FALSE, Json(Arr(DataPayload))),
         Script("", "application/json", TRUE, Json(Arr(BareResDataPayload))) >> }

Pages ==
    { JsonPage(payload) :
         payload \in RawPayloads \cup FixturePayloads \cup SeasonPayloads \cup RatingPayloads
                        \cup SubtitlePayloads }
        \cup OtherPages

(***************************************************************************)
(* Inputs of mergeCookies                                                  *)
(***************************************************************************)

\* the largest number of ';'-separated segments in a drawn cookie string
MaxCookies == 2

\* segments: a pair, the same name re-set, a value-less name, a name-less value
CookieSegments ==
    { <<"a", "=", "1">>, <<"a", "=", "2">>, <<"b">>, <<"=", "1">> }

CookieSeparators == { <<";", " ">>, <<";">> }

SegmentLists(n) == UNION { [1..k -> CookieSegments] : k \in 0..n }

CookieStrings ==
    {Null} \cup { Join(segs, sep) : segs \in SegmentLists(MaxCookies), sep \in CookieSeparators }

(***************************************************************************)
(* SpecMerge: mergeCookies applied once and twice to every drawn input     *)
(***************************************************************************)

\* the module-level state of proxy.js when it is loaded (lines 11-12)
SessionAtLoad ==
    /\ globalCookies = Null
    /\ cookiesInitialized = FALSE
    /\ calls = [c \in Calls |-> IdleCall]

(***************************************************************************)
(* The image load queue of the pages (part_006): the img elements, the     *)
(* queue object, the Image objects that are loading and the retry timers.  *)
(***************************************************************************)

MaxImages == 3

MaxConcurrent == 2

MaxRetryTimers == 1

\* an img element that waits to be loaded: data-src is set, src is not
LazyImage == [dataSrc |-> TRUE, src |-> FALSE, loaded |-> FALSE]

\* constructor(maxConcurrent) (lines 1459-1467)
NewImageLoadQueue(maxConcurrent) ==
    [queue |-> <<>>, loading |-> {}, maxConcurrent |-> maxConcurrent,
     processTimeout |-> FALSE]

\* const imageLoadQueue = new ImageLoadQueue(4) (line 1672)
GlobalImageLoadQueue == NewImageLoadQueue(4)

\* the priorities the observer gives (lines 1699-1706); the memory
\* management re-adds with priority 1 (line 1664)
ObserverPriorities == {5, 10}

\* the items of a priority, in their order
OfPriority(queue, priority) == SelectSeq(queue, LAMBDA item : item.priority = priority)

\* this.queue.sort((a, b) => b.priority - a.priority) (line 1491); the sort
\* is stable
SortByPriority(queue) ==
    OfPriority(queue, 10) \o OfPriority(queue, 8) \o OfPriority(queue, 5)
        \o OfPriority(queue, 1)

\* this.loading.has(img) || img.src || !img.dataset.src (lines 1476, 1509)
Skipped(q, elems, img) == img \in q.loading \/ elems[img].src \/ ~elems[img].dataSrc

\* processQueue() up to its timer (lines 1500-1507): the pending timer is
\* cleared and a new one is set
processQueue(q) == [q EXCEPT !.processTimeout = TRUE]

\* add(img, priority) (lines 1474-1495)
add(q, elems, img, priority) ==
    IF Skipped(q, elems, img) THEN q
    ELSE IF \E i \in 1..Len(q.queue) : q.queue[i].img = img THEN q
    ELSE processQueue([q EXCEPT !.queue =
             SortByPriority(Append(@, [img |-> img, priority |-> priority]))])

\* loadImage(img, retryCount) (lines 1537-1588) on the queue and the Image
\* objects: the img is marked as loading and an Image starts to load
loadImage(st, elems, img, retryCount) ==
    IF ~elems[img].dataSrc \/ img \in st.q.loading THEN st
    ELSE [q |-> [st.q EXCEPT !.loading = @ \cup {img}],
          loaders |-> st.loaders \cup {[img |-> img, retryCount |-> retryCount]}]

\* the loop of lines 1517-1522
RECURSIVE LoadUpToLimit(_, _)
LoadUpToLimit(st, elems) ==
    IF Cardinality(st.q.loading) < st.q.maxConcurrent /\ st.q.queue # <<>>
    THEN (IF elems[Head(st.q.queue).img].dataSrc /\ Head(st.q.queue).img \notin st.q.loading
          THEN LoadUpToLimit(loadImage([st EXCEPT !.q.queue = Tail(@)], elems,
                                       Head(st.q.queue).img, 0), elems)
          ELSE LoadUpToLimit([st EXCEPT !.q.queue = Tail(@)], elems))
    ELSE st

\* lines 1524-1527: the next batch is scheduled
ScheduleNext(q) ==
    IF Len(q.queue) > 0 /\ Cardinality(q.loading) < q.maxConcurrent THEN processQueue(q)
    ELSE q

\* lines 1507-1515: the items that are loading, loaded or without data-src
\* leave the queue
Filtered(q, elems) ==
    [q EXCEPT !.queue = SelectSeq(@, LAMBDA item : ~Skipped(q, elems, item.img)),
              !.processTimeout = FALSE]

\* handleImageError(img, retryCount) (lines 1595-1622): the first failure
\* sets the 500 ms retry timer, the second one goes on with the queue
handleImageError(q, timers, elems, img, retryCount) ==
    IF retryCount = 0 /\ elems[img].dataSrc
    THEN [q |-> [q EXCEPT !.loading = @ \ {img}],
          timers |-> [timers EXCEPT ![img] = @ + 1]]
    ELSE [q |-> processQueue([q EXCEPT !.loading = @ \ {img}]), timers |-> timers]

\* lines 1651-1664: the loaded images that are far from the viewport go back
\* to lazy loading and are re-added with priority 1, in document order
RECURSIVE Unload(_, _, _)
Unload(st, far, i) ==
    IF i > Len(st.elems) THEN st
    ELSE IF i \in far
    THEN Unload([elems |-> [st.elems EXCEPT ![i].src = FALSE, ![i].dataSrc = TRUE],
                 q |-> add(st.q, [st.elems EXCEPT ![i].src = FALSE, ![i].dataSrc = TRUE], i, 1)],
                far, i + 1)
    ELSE Unload(st, far, i + 1)

\* the intersection observer reports an img that has data-src (lines
\* 1693-1712)
Observe(img, priority) ==
    /\ imgs[img].dataSrc
    /\ imageLoadQueue' = add(imageLoadQueue, imgs, img, priority)
    /\ UNCHANGED <<imgs, imageLoaders, retryTimers, backVars, queueVars, searchVars>>

\* the timer of processQueue fires (lines 1507-1528)
ProcessTimer ==
    /\ imageLoadQueue.processTimeout
    /\ imageLoadQueue' =
          ScheduleNext(LoadUpToLimit([q |-> Filtered(imageLoadQueue, imgs),
                                      loaders |-> imageLoaders], imgs).q)
    /\ imageLoaders' =
          LoadUpToLimit([q |-> Filtered(imageLoadQueue, imgs),
                         loaders |-> imageLoaders], imgs).loaders
    /\ UNCHANGED <<imgs, retryTimers, backVars, queueVars, searchVars>>

\* imageLoader.onload (lines 1558-1579)
LoadSuccess(l) ==
    /\ l \in imageLoaders
    /\ imgs' = [imgs EXCEPT ![l.img] = [dataSrc |-> FALSE, src |-> TRUE, loaded |-> TRUE]]
    /\ imageLoadQueue' = processQueue([imageLoadQueue EXCEPT !.loading = @ \ {l.img}])
    /\ imageLoaders' = imageLoaders \ {l}
    /\ UNCHANGED <<retryTimers, backVars, queueVars, searchVars>>

\* imageLoader.onerror (lines 1582-1585)
LoadError(l) ==
    /\ l \in imageLoaders
    /\ l.retryCount = 0 => retryTimers[l.img] < MaxRetryTimers
    /\ imageLoadQueue' = handleImageError(imageLoadQueue, retryTimers, imgs, l.img, l.retryCount).q
    /\ retryTimers' = handleImageError(imageLoadQueue, retryTimers, imgs, l.img, l.retryCount).timers
    /\ imageLoaders' = imageLoaders \ {l}
    /\ UNCHANGED <<imgs, backVars, queueVars, searchVars>>

\* the 10 s timeout of a load (lines 1549-1555): the handlers of the Image
\* are removed and the load counts as failed
LoadTimeout(l) ==
    /\ l \in imageLoaders
    /\ l.img \in imageLoadQueue.loading
    /\ l.retryCount = 0 => retryTimers[l.img] < MaxRetryTimers
    /\ imageLoadQueue' = handleImageError(imageLoadQueue, retryTimers, imgs, l.img, l.retryCount).q
    /\ retryTimers' = handleImageError(imageLoadQueue, retryTimers, imgs, l.img, l.retryCount).timers
    /\ imageLoaders' = imageLoaders \ {l}
    /\ UNCHANGED <<imgs, backVars, queueVars, searchVars>>

\* the 500 ms retry timer fires (lines 1605-1609)
RetryTimer(img) ==
    /\ retryTimers[img] > 0
    /\ retryTimers' = [retryTimers EXCEPT ![img] = @ - 1]
    /\ IF imgs[img].dataSrc /\ ~imgs[img].src
       THEN /\ imageLoadQueue' = loadImage([q |-> imageLoadQueue, loaders |-> imageLoaders],
                                           imgs, img, 1).q
            /\ imageLoaders' = loadImage([q |-> imageLoadQueue, loaders |-> imageLoaders],
                                         imgs, img, 1).loaders
       ELSE UNCHANGED <<imageLoadQueue, imageLoaders>>
    /\ UNCHANGED <<imgs, backVars, queueVars, searchVars>>

\* the interval of startMemoryManagement fires (lines 1640-1668); which of
\* the loaded images are far from the viewport is open
MemoryCleanup ==
    /\ \E far \in SUBSET { i \in 1..Len(imgs) :
                              imgs[i].src /\ ~imgs[i].dataSrc /\ imgs[i].loaded } :
          /\ far # {}
          /\ imgs' = Unload([elems |-> imgs, q |-> imageLoadQueue], far, 1).elems
          /\ imageLoadQueue' = Unload([elems |-> imgs, q |-> imageLoadQueue], far, 1).q
    /\ UNCHANGED <<imageLoaders, retryTimers, backVars, queueVars, searchVars>>

\* the interval of setupLazyLoading fires (lines 1778-1782)
PeriodicCheck ==
    /\ Len(imageLoadQueue.queue) > 0
    /\ Cardinality(imageLoadQueue.loading) < imageLoadQueue.maxConcurrent
    /\ imageLoadQueue' = processQueue(imageLoadQueue)
    /\ UNCHANGED <<imgs, imageLoaders, retryTimers, backVars, queueVars, searchVars>>

(***************************************************************************)
(* The download queue of the pages (part_007): the DownloadItem objects,   *)
(* the ids the Map downloadQueue holds, the download history and the 5 s   *)
(* removal timers.  The xhr of an item is "null", "sent", "done" (load or  *)
(* error has fired) or "aborted".                                          *)
(***************************************************************************)

MaxAdds == 2

MaxHistory == 2

\* new DownloadItem(id, url, filename, type) (lines 366-384)
DownloadItem(id) == [id |-> id, status |-> "pending", xhr |-> "null"]

\* startDownload(id) (lines 407-493) up to xhr.send()
startDownload(items, queue, id) ==
    IF id \notin queue \/ items[id].status # "pending" THEN items
    ELSE [items EXCEPT ![id].status = "downloading", ![id].xhr = "sent"]

\* addToHistory(download) (lines 538-556); the history keeps 100 items
addToHistory(history, id) ==
    IF Len(<<id>> \o history) > 100 THEN SubSeq(<<id>> \o history, 1, 100)
    ELSE <<id>> \o history

\* addDownload(url, filename, type) (lines 393-401); the id is a fresh one
AddDownload ==
    /\ \E id \in (1..MaxAdds) \ DOMAIN downloadItems :
          /\ downloadItems' =
                startDownload([i \in DOMAIN downloadItems \cup {id} |->
                                  IF i = id THEN DownloadItem(id) ELSE downloadItems[i]],
                              downloadQueue \cup {id}, id)
          /\ downloadQueue' = downloadQueue \cup {id}
    /\ UNCHANGED <<downloadHistory, removalTimers, backVars, imageVars, searchVars>>

\* pauseDownload(id) (lines 499-507)
PauseDownload(id) ==
    /\ id \in downloadQueue
    /\ downloadItems[id].xhr # "null"
    /\ downloadItems' = [downloadItems EXCEPT ![id].status = "paused", ![id].xhr = "null"]
    /\ UNCHANGED <<downloadQueue, downloadHistory, removalTimers, backVars, imageVars, searchVars>>

\* resumeDownload(id) (lines 513-519)
ResumeDownload(id) ==
    /\ id \in downloadQueue
    /\ downloadItems[id].status = "paused"
    /\ downloadItems' = startDownload([downloadItems EXCEPT ![id].status = "pending"],
                                      downloadQueue, id)
    /\ UNCHANGED <<downloadQueue, downloadHistory, removalTimers, backVars, imageVars, searchVars>>

\* cancelDownload(id) (lines 525-532)
CancelDownload(id) ==
    /\ id \in downloadQueue
    /\ downloadItems' = IF downloadItems[id].xhr = "sent"
                        THEN [downloadItems EXCEPT ![id].xhr = "aborted"]
                        ELSE downloadItems
    /\ downloadQueue' = downloadQueue \ {id}
    /\ UNCHANGED <<downloadHistory, removalTimers, backVars, imageVars, searchVars>>

\* xhr.onload (lines 448-477): status 200 completes the download, adds it
\* to the history and sets the removal timer; another status fails it
XhrLoad(id, status) ==
    /\ id \in DOMAIN downloadItems
    /\ downloadItems[id].xhr = "sent"
    /\ IF status = 200
       THEN /\ Len(downloadHistory) < MaxHistory
            /\ downloadItems' = [downloadItems EXCEPT ![id].status = "completed", ![id].xhr = "done"]
            /\ downloadHistory' = addToHistory(downloadHistory, id)
            /\ removalTimers' = [removalTimers EXCEPT ![id] = @ + 1]
       ELSE /\ downloadItems' = [downloadItems EXCEPT ![id].status = "failed", ![id].xhr = "done"]
            /\ UNCHANGED <<downloadHistory, removalTimers>>
    /\ UNCHANGED <<downloadQueue, backVars, imageVars, searchVars>>

\* xhr.onerror (lines 479-483)
XhrError(id) ==
    /\ id \in DOMAIN downloadItems
    /\ downloadItems[id].xhr = "sent"
    /\ downloadItems' = [downloadItems EXCEPT ![id].status = "failed", ![id].xhr = "done"]
    /\ UNCHANGED <<downloadQueue, downloadHistory, removalTimers, backVars, imageVars, searchVars>>

\* the timer of lines 467-470 fires
RemovalTimer(id) ==
    /\ removalTimers[id] > 0
    /\ removalTimers' = [removalTimers EXCEPT ![id] = @ - 1]
    /\ downloadQueue' = downloadQueue \ {id}
    /\ UNCHANGED <<downloadItems, downloadHistory, backVars, imageVars, searchVars>>

\* the download queue is empty
QueueIdle ==
    /\ downloadItems = <<>>
    /\ downloadQueue = {}
    /\ downloadHistory = <<>>
    /\ removalTimers = [id \in 1..MaxAdds |-> 0]

(***************************************************************************)
(* The search page (search.js): the module variables, the searches sent    *)
(* with their answers, and what the page shows.                            *)
(***************************************************************************)

MaxSearches == 3

TotalPages == 2

Keywords == {"a", "b"}

SubjectTypes == {0, 1}

\* the containers before a search: no results, no pagination
NoResults == [shown |-> "none", keyword |-> "", subjectType |-> 0, page |-> 0]

NoPagination == [shown |-> FALSE, keyword |-> "", page |-> 0]

\* performSearch(keyword, filters, page) up to its await (lines 332-356):
\* the module variables are set, the loading state is shown and the request
\* is sent
performSearch(st, keyword, subjectType, page) ==
    [st EXCEPT !.currentSearchKeyword = keyword,
               !.currentFilters = [subjectType |-> subjectType],
               !.currentPage = page,
               !.results = [NoResults EXCEPT !.shown = "loading"],
               !.requests = Append(@, [keyword |-> keyword, subjectType |-> subjectType,
                                       page |-> page, state |-> "pending"])]

\* the module variables, the page and the requests as one value
SearchState ==
    [currentSearchKeyword |-> currentSearchKeyword, currentFilters |-> currentFilters,
     currentPage |-> currentPage, results |-> searchPage.results,
     requests |-> searchRequests]

\* the search page after a handler has run
SearchBecomes(st) ==
    /\ currentSearchKeyword' = st.currentSearchKeyword
    /\ currentFilters' = st.currentFilters
    /\ currentPage' = st.currentPage
    /\ searchPage' = [searchPage EXCEPT !.results = st.results]
    /\ searchRequests' = st.requests

\* the search form is submitted, or a suggestion or a popular search is
\* clicked (lines 60, 153, 201, 303): performSearch(keyword, currentFilters, 1)
SubmitKeyword(keyword) ==
    /\ searchPage.location = "search.html"
    /\ Len(searchRequests) < MaxSearches
    /\ SearchBecomes(performSearch(SearchState, keyword, currentFilters.subjectType, 1))
    /\ UNCHANGED <<backVars, imageVars, queueVars>>

\* a filter button is clicked (lines 223-240)
FilterClick(subjectType) ==
    /\ searchPage.location = "search.html"
    /\ Len(searchRequests) < MaxSearches
    /\ IF currentSearchKeyword # ""
       THEN SearchBecomes(performSearch(SearchState, currentSearchKeyword, subjectType, 1))
       ELSE /\ currentFilters' = [subjectType |-> subjectType]
            /\ UNCHANGED <<currentSearchKeyword, currentPage, searchPage, searchRequests>>
    /\ UNCHANGED <<backVars, imageVars, queueVars>>

\* a link of the pagination is clicked (lines 463-475): the keyword is the
\* one the pagination was rendered for, the filters are the shared object
PageClick(pageNum) ==
    /\ searchPage.location = "search.html"
    /\ Len(searchRequests) < MaxSearches
    /\ searchPage.pagination.shown
    /\ pageNum # currentPage
    /\ SearchBecomes(performSearch(SearchState, searchPage.pagination.keyword,
                                   currentFilters.subjectType, pageNum))
    /\ UNCHANGED <<backVars, imageVars, queueVars>>

\* api.search resolves (lines 357-372): the items of the answer are
\* rendered and the pagination is rebuilt for the keyword of this call
SearchResponse(i) ==
    /\ searchPage.location = "search.html"
    /\ searchRequests[i].state = "pending"
    /\ searchRequests' = [searchRequests EXCEPT ![i].state = "answered"]
    /\ searchPage' = [searchPage EXCEPT
                        !.results = [shown |-> "items", keyword |-> searchRequests[i].keyword,
                                     subjectType |-> searchRequests[i].subjectType,
                                     page |-> searchRequests[i].page],
                        !.pagination = [shown |-> TRUE, keyword |-> searchRequests[i].keyword,
                                        page |-> searchRequests[i].page]]
    /\ UNCHANGED <<currentSearchKeyword, currentFilters, currentPage, backVars, imageVars, queueVars>>

\* api.search rejects (lines 373-377): the page goes to 404.html
SearchError(i) ==
    /\ searchPage.location = "search.html"
    /\ searchRequests[i].state = "pending"
    /\ searchRequests' = [searchRequests EXCEPT ![i].state = "failed"]
    /\ searchPage' = [searchPage EXCEPT !.location = "404.html"]
    /\ UNCHANGED <<currentSearchKeyword, currentFilters, currentPage, backVars, imageVars, queueVars>>

\* search.js as loaded (lines 5-7), on the search page
SearchIdle ==
    /\ currentSearchKeyword = ""
    /\ currentFilters = [subjectType |-> 0]
    /\ currentPage = 1
    /\ searchRequests = <<>>
    /\ searchPage = [location |-> "search.html", results |-> NoResults,
                     pagination |-> NoPagination]

\* no page with images is open
ImagesIdle ==
    /\ imgs = <<>>
    /\ imageLoadQueue = GlobalImageLoadQueue
    /\ imageLoaders = {}
    /\ retryTimers = <<>>

\* the pages as loaded
PageIdle ==
    /\ ImagesIdle
    /\ QueueIdle
    /\ SearchIdle

\* no mergeCookies experiment is running
MergeIdle ==
    /\ existingCookies = Null
    /\ newCookies = Null
    /\ mergedOnce = Null
    /\ mergedTwice = Null
    /\ mpc = "off"

\* no page is being decoded
DecodeIdle ==
    /\ html = <<>>
    /\ whole = FALSE
    /\ movieDetails = NotRun
    /\ downloadableMetadata = NotRun
    /\ dpc = "off"

NoCall == [fn |-> "none", season |-> Undefined, episode |-> Undefined]

NoQuery ==
    [route |-> "", se |-> Undefined, ep |-> Undefined, subjectId |-> FALSE, detailPath |-> FALSE,
     keyword |-> FALSE]

NoUpstreamRequest ==
    [sent |-> FALSE, endpoint |-> "", se |-> Undefined, ep |-> Undefined,
     headers |-> getDefaultHeaders(""), requestCookies |-> Null]

NoApi == ApiResponse("", 0, "", <<>>)

NoBody == [code |-> 0, message |-> "", downloads |-> <<>>, hasResource |-> "absent"]

NoAnswer == [status |-> 0, error |-> "", body |-> NoBody, cookies |-> Null]

NoFrontendResult == [ok |-> FALSE, status |-> 0, downloads |-> <<>>, hasResource |-> FALSE]

\* no metadata request is being served
MetaIdle ==
    /\ mcall = NoCall
    /\ mquery = NoQuery
    /\ mup = NoUpstreamRequest
    /\ mapi = NoApi
    /\ mout = NoAnswer
    /\ mfront = NoFrontendResult
    /\ metapc = "off"

\* no streaming request is being served
StreamIdle ==
    /\ sreq = NoRequest
    /\ cdn = [size |-> 0]
    /\ lib = [unhandledError |-> FALSE, idleAbort |-> FALSE]
    /\ ups = <<>>
    /\ sres = FreshResponse
    /\ spc = "off"
    /\ client = "connected"
    /\ server = "up"

InitMerge ==
    /\ existingCookies \in CookieStrings
    /\ newCookies \in CookieStrings
    /\ mergedOnce = Null
    /\ mergedTwice = Null
    /\ mpc = "input"
    /\ SessionAtLoad
    /\ mbCookies = Null
    /\ DecodeIdle
    /\ PageIdle
    /\ StreamIdle
    /\ MetaIdle

MergeOnce ==
    /\ mpc = "input"
    /\ mergedOnce' = mergeCookies(existingCookies, newCookies)
    /\ mpc' = "once"
    /\ UNCHANGED <<existingCookies, newCookies, mergedTwice, sessionVars, decodeVars, routeVars, pageVars>>

MergeAgain ==
    /\ mpc = "once"
    /\ mergedTwice' = mergeCookies(mergedOnce, newCookies)
    /\ mpc' = "twice"
    /\ UNCHANGED <<existingCookies, newCookies, mergedOnce, sessionVars, decodeVars, routeVars, pageVars>>

NextMerge == MergeOnce \/ MergeAgain

SpecMerge == InitMerge /\ [][NextMerge]_vars

(***************************************************************************)
(* SpecDecode: both parsers applied to every drawn page, in the order of   *)
(* fetchMovieDetailsFromHTML (lines 432-440)                               *)
(***************************************************************************)

InitDecode ==
    /\ html \in Pages
    /\ whole = FALSE
    /\ movieDetails = NotRun
    /\ downloadableMetadata = NotRun
    /\ dpc = "detail"
    /\ SessionAtLoad
    /\ mbCookies = Null
    /\ PageIdle
    /\ MergeIdle
    /\ StreamIdle
    /\ MetaIdle

\* parseMovieDetailPage(html, whole)
ParseDetail ==
    /\ dpc = "detail"
    /\ \E w \in BOOLEAN :
          /\ whole' = w
          /\ movieDetails' = parseMovieDetailPage(html, w)
    /\ dpc' = "downloadable"
    /\ UNCHANGED <<html, downloadableMetadata, mergeVars, sessionVars, routeVars, pageVars>>

\* parseDownloadableMetadata(html)
ParseDownloadable ==
    /\ dpc = "downloadable"
    /\ downloadableMetadata' = parseDownloadableMetadata(html)
    /\ dpc' = "done"
    /\ UNCHANGED <<html, whole, movieDetails, mergeVars, sessionVars, routeVars, pageVars>>

NextDecode == ParseDetail \/ ParseDownloadable

SpecDecode == InitDecode /\ [][NextDecode]_vars

(***************************************************************************)
(* Spec: one makeRequest call and one ensureCookiesAreAssigned call run    *)
(* concurrently against the session store; they are suspended only while   *)
(* a request or the backoff timer is pending.                              *)
(***************************************************************************)

Init ==
    /\ SessionAtLoad
    /\ mbCookies \in EnvChoices
    /\ MergeIdle
    /\ DecodeIdle
    /\ PageIdle
    /\ StreamIdle
    /\ MetaIdle

Next ==
    \/ \E c \in Requesters : MakeRequestCall(c)
    \/ \E c \in Initialisers : EnsureCall(c)
    \/ \E c \in Calls : InitResponse(c)
    \/ \E c \in Requesters : ResponseOk(c)
    \/ \E c \in Requesters : ResponseError(c)
    \/ \E c \in Requesters : SleepDone(c)

Spec == Init /\ [][Next]_vars

\* every request is sent with timeout: 60000 (line 217), so it is answered or
\* fails with a timeout; the timer of a sleep fires; the request of the
\* cookie initialisation (timeout: 30000, line 48) is answered likewise
Delivery(c) == InitResponse(c) \/ ResponseOk(c) \/ ResponseError(c) \/ SleepDone(c)

\* one makeRequest call from its start to its end
NextCall == \E c \in Requesters : MakeRequestCall(c) \/ Delivery(c)

SpecFair == Init /\ [][NextCall]_vars /\ \A c \in Requesters : WF_vars(Delivery(c))

(***************************************************************************)
(* SpecStream: one inbound request to a streaming route, the               *)
(* upstream answers, the relay, and the faults of both sides               *)
(***************************************************************************)

\* lib.unhandledError: the stream handed out by axios emits 'error' although
\* nobody listens, which ends the process; lib.idleAbort: the timeout of the
\* axios request still aborts the socket after the response has arrived
InitStream ==
    /\ \E size \in 1..MaxBytes :
          /\ cdn = [size |-> size]
          /\ sreq \in StreamRequests(size)
    /\ lib \in [unhandledError : BOOLEAN, idleAbort : BOOLEAN]
    /\ ups = <<>>
    /\ sres = FreshResponse
    /\ spc = "start"
    /\ client = "connected"
    /\ server = "up"
    /\ SessionAtLoad
    /\ mbCookies \in EnvChoices
    /\ MergeIdle
    /\ DecodeIdle
    /\ PageIdle
    /\ MetaIdle

\* req.headers.range || "bytes=0-"
RangeOrDefault(range) == IF Falsy(range) THEN RangeHeader(0, 0 - 1) ELSE range

\* download.js lines 15-36: up to the first await
DownloadStart ==
    /\ spc = "start"
    /\ sreq.route = "download"
    /\ IF Falsy(sreq.url)
       THEN /\ sres' = JsonResponse(sres, 400, "URL parameter is required")
            /\ spc' = "done"
            /\ UNCHANGED ups
       ELSE /\ ups' = << Upstream("GET", getMediaDownloadHeaders(sreq.url, sreq.cookies,
                                             RangeOrDefault(sreq.range))) >>
            /\ spc' = "get"
            /\ UNCHANGED sres
    /\ UNCHANGED <<sreq, cdn, lib, client, server, sessionVars, mergeVars, decodeVars, metaVars, pageVars>>

\* download.js lines 38-82: the first GET is answered with a stream; with a
\* client Range the second GET is sent, otherwise the first stream is piped
DownloadResponse ==
    /\ spc = "get"
    /\ sreq.route = "download"
    /\ server = "up"
    /\ LET served == Serve(ups[1].headers.Range, cdn.size)
           r == ClientRange(sreq.range, served.contentLength)
       IN /\ served.status < 400
          /\ IF ~Falsy(sreq.range) /\ ~Falsy(served.contentLength)
             THEN /\ sres' = [sres EXCEPT
                                !.status = 206,
                                !.ContentRange = ContentRangeOf(r, served.contentLength),
                                !.AcceptRanges = <<"b", "y", "t", "e", "s">>,
                                !.ContentLength = ShowNumber(r.nan, r.chunksize)]
                  /\ ups' = << Opened(ups[1], served),
                               Upstream("GET", getMediaDownloadHeaders(sreq.url, sreq.cookies,
                                                   RangeTemplateOf(r))) >>
                  /\ spc' = "get2"
             ELSE /\ sres' = [sres EXCEPT !.ContentLength = served.contentLength]
                  /\ ups' = << [Opened(ups[1], served) EXCEPT !.piped = TRUE] >>
                  /\ spc' = "piping"
    /\ UNCHANGED <<sreq, cdn, lib, client, server, sessionVars, mergeVars, decodeVars, metaVars, pageVars>>

\* download.js lines 69-78: the second GET is answered and piped
DownloadRangeResponse ==
    /\ spc = "get2"
    /\ sreq.route = "download"
    /\ server = "up"
    /\ LET served == Serve(ups[2].headers.Range, cdn.size)
       IN /\ served.status < 400
          /\ ups' = [ups EXCEPT ![2] = [Opened(@, served) EXCEPT !.piped = TRUE]]
    /\ spc' = "piping"
    /\ UNCHANGED <<sreq, cdn, lib, sres, client, server, sessionVars, mergeVars, decodeVars, metaVars, pageVars>>

\* the statuses a GET for `range` can be rejected with
RejectStatuses(range, size) ==
    ErrorStatuses \cup (IF Serve(range, size).status >= 400 THEN {Serve(range, size).status} ELSE {})

\* download.js lines 83-92: a GET is rejected
DownloadError ==
    /\ spc \in {"get", "get2"}
    /\ sreq.route = "download"
    /\ server = "up"
    /\ \E status \in RejectStatuses(ups[Len(ups)].headers.Range, cdn.size) :
          /\ ups' = [ups EXCEPT ![Len(ups)] = Failed(@, status)]
          /\ sres' = IF ~sres.headersSent
                     THEN JsonResponse(sres, IF status = 0 THEN 500 ELSE status, "Download failed")
                     ELSE sres
    /\ spc' = "done"
    /\ UNCHANGED <<sreq, cdn, lib, client, server, sessionVars, mergeVars, decodeVars, metaVars, pageVars>>

\* download.js lines 100-118: /download-subtitle up to its await; the Range
\* of the client is not read
SubtitleStart ==
    /\ spc = "start"
    /\ sreq.route = "download-subtitle"
    /\ IF Falsy(sreq.url)
       THEN /\ sres' = JsonResponse(sres, 400, "URL parameter is required")
            /\ spc' = "done"
            /\ UNCHANGED ups
       ELSE /\ ups' = << Upstream("GET", getMediaDownloadHeaders(sreq.url, sreq.cookies,
                                             RangeHeader(0, 0 - 1))) >>
            /\ spc' = "get"
            /\ UNCHANGED sres
    /\ UNCHANGED <<sreq, cdn, lib, client, server, sessionVars, mergeVars, decodeVars, metaVars, pageVars>>

\* download.js lines 120-128: the GET is answered with a stream, which is
\* piped; no Content-Length is set
SubtitleResponse ==
    /\ spc = "get"
    /\ sreq.route = "download-subtitle"
    /\ server = "up"
    /\ LET served == Serve(ups[1].headers.Range, cdn.size)
       IN /\ served.status < 400
          /\ ups' = << [Opened(ups[1], served) EXCEPT !.piped = TRUE] >>
    /\ spc' = "piping"
    /\ UNCHANGED <<sreq, cdn, lib, sres, client, server, sessionVars, mergeVars, decodeVars, metaVars, pageVars>>

\* download.js lines 129-138: the GET is rejected
SubtitleError ==
    /\ spc = "get"
    /\ sreq.route = "download-subtitle"
    /\ server = "up"
    /\ \E status \in RejectStatuses(ups[1].headers.Range, cdn.size) :
          /\ ups' = << Failed(ups[1], status) >>
          /\ sres' = IF ~sres.headersSent
                     THEN JsonResponse(sres, IF status = 0 THEN 500 ELSE status,
                                       "Subtitle download failed")
                     ELSE sres
    /\ spc' = "done"
    /\ UNCHANGED <<sreq, cdn, lib, client, server, sessionVars, mergeVars, decodeVars, metaVars, pageVars>>

\* mutant: the probe is sent with the headers of the GET as they are
ProbeOfWithRange(headers) == Upstream("HEAD", headers)

\* part_004 lines 1664-1676: the HEAD probe carries the headers of the
\* download without Range
ProbeOf(headers) == Upstream("HEAD", [headers EXCEPT !.Range = Null])

\* /download-proxy lines 1607-1676: up to the first await, which is the
\* cookie initialisation when the query carries no cookies and the store has
\* none, else the HEAD probe
ProxyStart ==
    /\ spc = "start"
    /\ sreq.route = "download-proxy"
    /\ LET e == EnsureSync(globalCookies, cookiesInitialized, mbCookies)
       IN IF Falsy(sreq.url)
          THEN /\ sres' = JsonResponse(sres, 400, "url query parameter is required")
               /\ spc' = "done"
               /\ UNCHANGED <<ups, globalCookies, cookiesInitialized>>
          ELSE IF ~Falsy(sreq.cookies)
          THEN /\ ups' = << ProbeOf(getMediaDownloadHeaders(sreq.url, sreq.cookies,
                                        RangeOrDefault(sreq.range))) >>
               /\ spc' = "probe"
               /\ UNCHANGED <<sres, globalCookies, cookiesInitialized>>
          ELSE IF e.awaits
          THEN /\ spc' = "ensure"
               /\ UNCHANGED <<sres, ups, globalCookies, cookiesInitialized>>
          ELSE /\ globalCookies' = e.store
               /\ cookiesInitialized' = e.initialized
               /\ ups' = << ProbeOf(getMediaDownloadHeaders(sreq.url, e.value,
                                        RangeOrDefault(sreq.range))) >>
               /\ spc' = "probe"
               /\ UNCHANGED sres
    /\ UNCHANGED <<sreq, cdn, lib, client, server, mbCookies, calls, mergeVars, decodeVars, metaVars, pageVars>>

\* the cookie-initialisation request of ensureCookiesAreAssigned answers
\* (proxy.js lines 51-74) and the handler goes on to the HEAD probe
ProxyEnsureResponse ==
    /\ spc = "ensure"
    /\ server = "up"
    /\ \E ok \in BOOLEAN, setCookie \in SetCookieChoices :
          /\ ok \/ setCookie = NoSetCookie
          /\ globalCookies' = IF ok THEN EnsureStore(globalCookies, setCookie) ELSE globalCookies
          /\ cookiesInitialized' = TRUE
          /\ ups' = << ProbeOf(getMediaDownloadHeaders(sreq.url,
                                   IF ok THEN EnsureValue(setCookie) ELSE Null,
                                   RangeOrDefault(sreq.range))) >>
    /\ spc' = "probe"
    /\ UNCHANGED <<sreq, cdn, lib, sres, client, server, mbCookies, calls, mergeVars, decodeVars, metaVars, pageVars>>

\* lines 1671-1774: the probe is answered; the route answers the client, or
\* goes on to the main GET with the headers of line 1643
ProxyProbeResponse ==
    /\ spc = "probe"
    /\ server = "up"
    /\ \E status \in ProbeStatuses :
          IF ProbeOutcome(status, sreq.url).error # "continue"
          THEN /\ ups' = << Probed(ups[1], status) >>
               /\ sres' = JsonResponse(sres, ProbeOutcome(status, sreq.url).status,
                                       ProbeOutcome(status, sreq.url).error)
               /\ spc' = "done"
          ELSE /\ ups' = << Probed(ups[1], status),
                            Upstream("GET", [ups[1].headers EXCEPT
                                               !.Range = RangeOrDefault(sreq.range)]) >>
               /\ spc' = "get"
               /\ UNCHANGED sres
    /\ UNCHANGED <<sreq, cdn, lib, client, server, sessionVars, mergeVars, decodeVars, metaVars, pageVars>>

\* lines 1769-1919: the main GET is answered with a stream, the response
\* headers are set and the stream is piped
ProxyGetResponse ==
    /\ spc = "get"
    /\ sreq.route = "download-proxy"
    /\ server = "up"
    /\ LET served == Serve(ups[2].headers.Range, cdn.size)
       IN /\ served.status < 400
          /\ sres' = [sres EXCEPT !.ContentLength = served.contentLength]
          /\ ups' = [ups EXCEPT ![2] = [Opened(@, served) EXCEPT !.piped = TRUE]]
    /\ spc' = "piping"
    /\ UNCHANGED <<sreq, cdn, lib, client, server, sessionVars, mergeVars, decodeVars, metaVars, pageVars>>

\* lines 1785-1828 and 1920-1960: the main GET is rejected
ProxyGetError ==
    /\ spc = "get"
    /\ sreq.route = "download-proxy"
    /\ server = "up"
    /\ \E status \in RejectStatuses(ups[2].headers.Range, cdn.size) :
          /\ ups' = [ups EXCEPT ![2] = Failed(@, status)]
          /\ sres' = IF ~sres.headersSent
                     THEN JsonResponse(sres,
                              CatchOutcome(ThrownStatusCode(status, sreq.url), status, sreq.url).status,
                              CatchOutcome(ThrownStatusCode(status, sreq.url), status, sreq.url).error)
                     ELSE sres
    /\ spc' = "done"
    /\ UNCHANGED <<sreq, cdn, lib, client, server, sessionVars, mergeVars, decodeVars, metaVars, pageVars>>

\* pipe: a chunk of the piped stream is written to res; the first write
\* sends the headers
Relay ==
    /\ spc = "piping"
    /\ server = "up"
    /\ Writable(sres, client)
    /\ \E i \in 1..Len(ups) :
          /\ ups[i].piped
          /\ ups[i].state = "open"
          /\ ups[i].pos <= ups[i].to
          /\ sres' = [sres EXCEPT !.headersSent = TRUE, !.body = "stream",
                                  !.relayed = Append(@, ups[i].pos)]
          /\ ups' = [ups EXCEPT ![i].pos = @ + 1]
    /\ UNCHANGED <<sreq, cdn, lib, spc, client, server, sessionVars, mergeVars, decodeVars, metaVars, pageVars>>

\* pipe: the piped stream emits 'end' and res.end() is called
UpstreamEnd ==
    /\ spc = "piping"
    /\ server = "up"
    /\ \E i \in 1..Len(ups) :
          /\ ups[i].piped
          /\ ups[i].state = "open"
          /\ ups[i].pos > ups[i].to
          /\ ups' = [ups EXCEPT ![i].state = "ended"]
    /\ sres' = IF Writable(sres, client)
               THEN [sres EXCEPT !.headersSent = TRUE, !.body = "stream", !.state = "ended"]
               ELSE sres
    /\ spc' = "done"
    /\ UNCHANGED <<sreq, cdn, lib, client, server, sessionVars, mergeVars, decodeVars, metaVars, pageVars>>

\* the route listens to 'error' on the stream (part_004 lines 1912-1914);
\* the routes of download.js attach no listener
HasErrorListener(route) == route = "download-proxy"

\* every connection of a process that has exited is closed
Exited(up) == IF up.state \in {"pending", "open"} THEN [up EXCEPT !.state = "closed"] ELSE up

\* an open upstream stream fails. pipe() does not end or destroy its
\* destination when the source fails, so res stays as it is; an 'error'
\* event without a listener ends the process
UpstreamError ==
    /\ server = "up"
    /\ \E i \in 1..Len(ups) :
          /\ ups[i].state = "open"
          /\ IF HasErrorListener(sreq.route) \/ ~lib.unhandledError
             THEN /\ ups' = [ups EXCEPT ![i].state = "errored"]
                  /\ UNCHANGED <<sres, server>>
             ELSE /\ ups' = [j \in 1..Len(ups) |->
                               IF j = i THEN [ups[j] EXCEPT !.state = "errored"]
                               ELSE Exited(ups[j])]
                  /\ sres' = [sres EXCEPT !.state = IF @ = "open" THEN "aborted" ELSE @]
                  /\ server' = "crashed"
    /\ UNCHANGED <<sreq, cdn, lib, spc, client, sessionVars, mergeVars, decodeVars, metaVars, pageVars>>

\* the client closes its connection: res emits 'close', pipe() unpipes the
\* source and leaves it paused; neither route listens to 'close'
ClientDisconnect ==
    /\ spc \in {"ensure", "probe", "get", "get2", "piping"}
    /\ server = "up"
    /\ Writable(sres, client)
    /\ client' = "gone"
    /\ sres' = [sres EXCEPT !.state = "aborted"]
    /\ ups' = [j \in 1..Len(ups) |-> [ups[j] EXCEPT !.piped = FALSE]]
    /\ UNCHANGED <<sreq, cdn, lib, spc, server, sessionVars, mergeVars, decodeVars, metaVars, pageVars>>

\* a stream that nobody reads is idle
Flowing(up, res, who) == up.piped /\ Writable(res, who)

\* the timeout of the axios request (timeout: 300000) aborts an idle socket,
\* when the installed axios still does so after the response has arrived
IdleTimeout ==
    /\ server = "up"
    /\ lib.idleAbort
    /\ \E i \in 1..Len(ups) :
          /\ ups[i].state = "open"
          /\ ~Flowing(ups[i], sres, client)
          /\ ups' = [ups EXCEPT ![i].state = "closed"]
    /\ UNCHANGED <<sreq, cdn, lib, sres, spc, client, server, sessionVars, mergeVars, decodeVars, metaVars, pageVars>>

\* the handler and the upstream make progress
Progress ==
    \/ DownloadStart
    \/ DownloadResponse
    \/ DownloadRangeResponse
    \/ DownloadError
    \/ SubtitleStart
    \/ SubtitleResponse
    \/ SubtitleError
    \/ ProxyStart
    \/ ProxyEnsureResponse
    \/ ProxyProbeResponse
    \/ ProxyGetResponse
    \/ ProxyGetError
    \/ Relay
    \/ UpstreamEnd
    \/ IdleTimeout

NextStream ==
    \/ Progress
    \/ UpstreamError
    \/ ClientDisconnect

SpecStream == InitStream /\ [][NextStream]_vars

\* the requests whose cancellation is followed: a plain url without query
\* cookies, every Range, on a resource of one byte
InitCancel ==
    /\ InitStream
    /\ cdn.size = 1
    /\ sreq.url = PlainUrl
    /\ sreq.cookies = Null
    /\ mbCookies = Null

\* the event loop runs every callback that is ready and every request is
\* answered or times out; faults are not obliged to happen
SpecStreamFair == InitCancel /\ [][NextStream]_vars /\ WF_vars(Progress)

(***************************************************************************)
(* SpecMeta: one download-metadata or play request, from the frontend      *)
(* client or straight to the route, the upstream answer, the answer of the *)
(* route and what the frontend client returns                              *)
(***************************************************************************)

\* the detail path of the requests
DetailPath == "movie-abc"

FrontendCalls ==
    [ fn : {"getDownloadMetadata", "getPlayMetadata"},
      season : FrontendNumbers, episode : FrontendNumbers ]

DirectQueries ==
    [ route : {"download", "play"}, se : QueryNumbers, ep : QueryNumbers,
      subjectId : BOOLEAN, detailPath : BOOLEAN, keyword : {FALSE} ]
    \cup [ route : {"search"}, se : {Undefined}, ep : {Undefined},
           subjectId : {FALSE}, detailPath : {FALSE}, keyword : BOOLEAN ]
    \cup [ route : {"movie"}, se : {Undefined}, ep : {Undefined},
           subjectId : {TRUE}, detailPath : BOOLEAN, keyword : {FALSE} ]

InitMeta ==
    /\ \/ /\ mcall \in FrontendCalls
          /\ mquery = NoQuery
          /\ metapc = "frontend"
       \/ /\ mcall = NoCall
          /\ mquery \in DirectQueries
          /\ metapc = "route"
    /\ mup = NoUpstreamRequest
    /\ mapi = NoApi
    /\ mout = NoAnswer
    /\ mfront = NoFrontendResult
    /\ SessionAtLoad
    /\ mbCookies \in EnvChoices
    /\ MergeIdle
    /\ DecodeIdle
    /\ PageIdle
    /\ StreamIdle

\* api.js lines 194-207 and 320-333: the season is forced to 0 for episode 0
\* and the query string is built
FrontendSeason(season, episode) ==
    IF IsZeroEpisode(OrZero(episode)) THEN Num(0) ELSE OrZero(season)

FrontendCall ==
    /\ metapc = "frontend"
    /\ mquery' = [route |-> IF mcall.fn = "getDownloadMetadata" THEN "download" ELSE "play",
                  se |-> QueryParam(FrontendSeason(mcall.season, mcall.episode)),
                  ep |-> QueryParam(OrZero(mcall.episode)),
                  subjectId |-> TRUE, detailPath |-> TRUE, keyword |-> FALSE]
    /\ metapc' = "route"
    /\ UNCHANGED <<mcall, mup, mapi, mout, mfront, sessionVars, mergeVars, decodeVars, streamVars, pageVars>>

\* part_004 lines 1120-1126
MetaEpisode(ep) == ParseIntOrZero(OrZero(ep))

\* mutant: the season is passed on whatever the episode is
MetaSeasonKept(se, ep) == ParseIntOrZero(OrZero(se))

MetaSeason(se, ep) == IF MetaEpisode(ep) = Num(0) THEN Num(0) ELSE ParseIntOrZero(OrZero(se))

\* part_004 lines 1411-1416
PlaySeason(se, ep) == IF IsZeroEpisode(OrZero(ep)) THEN Num(0) ELSE OrZero(se)

\* requestHeaders['Cookie'] = globalCookies (proxy.js lines 164-168) for
\* headers that carry no Cookie; requestHeaders['Cookie'] = cookies in
\* fetchMovieDetailsFromHTML (part_005 lines 409-411)
Attached(headers, cookies) == [headers EXCEPT !.Cookie = CookieHeader(cookies)]

\* the request handed to makeRequest (lines 1160-1174, 1426-1437 and
\* 834-842, where makeRequest falls back on getDefaultHeaders()) or sent by
\* fetchMovieDetailsFromHTML (part_005 lines 402-422); the params are
\* serialised by URLSearchParams.  makeRequest finds the store as `store`:
\* getDownloadHeaders(detailPath, requestCookies) takes detailPath only
\* (headers.js line 41), so requestCookies is not part of the headers
UpstreamRequest(query, requestCookies, store) ==
    IF query.route = "search"
    THEN [sent |-> TRUE, endpoint |-> "wefeed-h5-bff/web/subject/search",
          se |-> Undefined, ep |-> Undefined,
          headers |-> Attached(getDefaultHeaders(""), store),
          requestCookies |-> requestCookies]
    ELSE IF query.route = "movie"
    THEN [sent |-> TRUE, endpoint |-> HOST_URL \o "movies/" \o DetailPath,
          se |-> Undefined, ep |-> Undefined,
          headers |-> Attached(getDefaultHeaders(""), requestCookies),
          requestCookies |-> requestCookies]
    ELSE IF query.route = "download"
    THEN [sent |-> TRUE, endpoint |-> "wefeed-h5-bff/web/subject/download",
          se |-> QueryParam(MetaSeason(query.se, query.ep)),
          ep |-> QueryParam(MetaEpisode(query.ep)),
          headers |-> Attached(getDownloadHeaders(DetailPath), store),
          requestCookies |-> requestCookies]
    ELSE [sent |-> TRUE, endpoint |-> "wefeed-h5-bff/web/subject/play",
          se |-> QueryParam(PlaySeason(query.se, query.ep)),
          ep |-> QueryParam(OrZero(query.ep)),
          headers |-> Attached(getDefaultHeaders(HOST_URL \o "movies/" \o DetailPath), store),
          requestCookies |-> requestCookies]

\* res.status(400).json({ error }) (lines 1139-1145, 1418-1424)
BadRequest(error) == [status |-> 400, error |-> error, body |-> NoBody, cookies |-> Null]

I18nLang == <<"i", "1", "8", "n", "_", "l", "a", "n", "g">>

\* lines 1155-1158: the i18n_lang cookie is added to the request cookies
WithI18n(requestCookies) ==
    IF ~Falsy(requestCookies) /\ ~Includes(requestCookies, I18nLang)
    THEN requestCookies \o <<";", " ">> \o I18nLang \o <<"=", "e", "n">>
    ELSE requestCookies

\* the 400 a route answers a query with, "" when the query is accepted
\* (lines 830-832, 1085-1087, 1139-1145 and 1418-1424)
Rejection(query) ==
    IF query.route = "search"
    THEN (IF ~query.keyword THEN "Keyword is required" ELSE "")
    ELSE IF query.route = "movie"
    THEN (IF ~query.detailPath THEN "detailPath query parameter is required" ELSE "")
    ELSE IF ~query.subjectId THEN "subjectId query parameter is required"
    ELSE IF ~query.detailPath THEN "detailPath query parameter is required"
    ELSE ""

\* the cookies a route sends: the download-metadata route adds i18n_lang
\* (lines 1155-1158)
RequestCookies(route, value) == IF route = "download" THEN WithI18n(value) ELSE value

\* a route is entered (lines 826-842, 1080-1090, 1113-1151 and 1409-1429):
\* the parameters are validated; /download and fetchMovieDetailsFromHTML
\* await ensureCookiesAreAssigned, the other routes enter makeRequest, which
\* awaits it when the store is not initialised
RouteStart ==
    /\ metapc = "route"
    /\ LET e == EnsureSync(globalCookies, cookiesInitialized, mbCookies)
           ensures == mquery.route \in {"download", "movie"} \/ ~cookiesInitialized
       IN IF Rejection(mquery) # ""
          THEN /\ mout' = BadRequest(Rejection(mquery))
               /\ metapc' = "done"
               /\ UNCHANGED <<mup, globalCookies, cookiesInitialized>>
          ELSE IF ensures /\ e.awaits
          THEN /\ metapc' = "ensure"
               /\ UNCHANGED <<mup, mout, globalCookies, cookiesInitialized>>
          ELSE /\ globalCookies' = IF ensures THEN e.store ELSE globalCookies
               /\ cookiesInitialized' = IF ensures THEN e.initialized ELSE cookiesInitialized
               /\ mup' = UpstreamRequest(mquery,
                             RequestCookies(mquery.route,
                                 IF ensures THEN e.value
                                 ELSE IF Falsy(globalCookies) THEN Null ELSE globalCookies),
                             IF ensures THEN e.store ELSE globalCookies)
               /\ metapc' = "request"
               /\ UNCHANGED mout
    /\ UNCHANGED <<mcall, mquery, mapi, mfront, mbCookies, calls, mergeVars, decodeVars, streamVars, pageVars>>

\* the cookie-initialisation request answers (proxy.js lines 51-74) and the
\* request is handed to makeRequest
RouteEnsureResponse ==
    /\ metapc = "ensure"
    /\ \E ok \in BOOLEAN, setCookie \in RouteSetCookies :
          /\ ok \/ setCookie = NoSetCookie
          /\ globalCookies' = IF ok THEN EnsureStore(globalCookies, setCookie) ELSE globalCookies
          /\ cookiesInitialized' = TRUE
          /\ mup' = UpstreamRequest(mquery,
                        RequestCookies(mquery.route,
                            IF ok THEN EnsureValue(setCookie) ELSE Null),
                        IF ok THEN EnsureStore(globalCookies, setCookie) ELSE globalCookies)
    /\ metapc' = "request"
    /\ UNCHANGED <<mcall, mquery, mapi, mout, mfront, mbCookies, calls, mergeVars, decodeVars, streamVars, pageVars>>

\* where the answer of the route goes
Answered2(call) == IF call.fn = "none" THEN "done" ELSE "answered"

\* response.cookies || requestCookies || null (line 1207)
MetaCookies(responseCookies, requestCookies) ==
    IF ~Falsy(responseCookies) THEN responseCookies
    ELSE IF ~Falsy(requestCookies) THEN requestCookies
    ELSE Null

\* makeRequest returns (proxy.js lines 231-262) and the download-metadata
\* route filters the downloads and answers (part_004 lines 1178-1373)
MetaResponse ==
    /\ metapc = "request"
    /\ mquery.route = "download"
    /\ \E setCookie \in RouteSetCookies, api \in ApiResponses :
          /\ globalCookies' = StoreAfterResponse(globalCookies, setCookie)
          /\ cookiesInitialized' =
                (cookiesInitialized \/
                 (setCookie.present /\
                  ~Falsy(mergeCookies(globalCookies, CookiesFromSetCookie(setCookie.list)))))
          /\ mapi' = api
          /\ mout' = [status |-> 200, error |-> "", body |-> MetaBody(api),
                      cookies |-> MetaCookies(ResponseCookies(globalCookies, setCookie),
                                              mup.requestCookies)]
    /\ metapc' = Answered2(mcall)
    /\ UNCHANGED <<mcall, mquery, mup, mfront, mbCookies, calls, mergeVars, decodeVars, streamVars, pageVars>>

\* res.json(response.data) (line 1439)
PlayBody(responseData) ==
    [code |-> responseData.code, message |-> responseData.message,
     downloads |-> responseData.downloads, hasResource |-> "absent"]

\* makeRequest returns and the play or the search route passes the answer
\* on (lines 844 and 1439)
PlayResponse ==
    /\ metapc = "request"
    /\ mquery.route \in {"play", "search"}
    /\ \E setCookie \in RouteSetCookies, api \in PlayResponses :
          /\ globalCookies' = StoreAfterResponse(globalCookies, setCookie)
          /\ cookiesInitialized' =
                (cookiesInitialized \/
                 (setCookie.present /\
                  ~Falsy(mergeCookies(globalCookies, CookiesFromSetCookie(setCookie.list)))))
          /\ mapi' = api
          /\ mout' = [status |-> 200, error |-> "", body |-> PlayBody(api), cookies |-> Null]
    /\ metapc' = Answered2(mcall)
    /\ UNCHANGED <<mcall, mquery, mup, mfront, mbCookies, calls, mergeVars, decodeVars, streamVars, pageVars>>

\* the page of the movie answers: it is decoded and passed on (part_005
\* lines 412-440, part_004 line 1092); the store is not touched
MovieResponse ==
    /\ metapc = "request"
    /\ mquery.route = "movie"
    /\ mout' = [status |-> 200, error |-> "", body |-> NoBody, cookies |-> Null]
    /\ metapc' = Answered2(mcall)
    /\ UNCHANGED <<mcall, mquery, mup, mapi, mfront, sessionVars, mergeVars, decodeVars, streamVars, pageVars>>

\* the message of the catch block of a route
RouteFailure(route) ==
    IF route = "download" THEN "Failed to fetch download metadata"
    ELSE IF route = "play" THEN "Failed to fetch play metadata"
    ELSE IF route = "search" THEN "Search failed"
    ELSE "Failed to fetch movie details"

\* makeRequest throws (lines 845-850, 1374-1401 and 1440-1446), or
\* fetchMovieDetailsFromHTML throws a new Error, which has no response
\* (part_005 lines 445-447, part_004 lines 1093-1098)
RouteError ==
    /\ metapc = "request"
    /\ \E status \in ErrorStatuses :
          mout' = [status |-> IF status = 0 \/ mquery.route = "movie" THEN 500 ELSE status,
                   error |-> RouteFailure(mquery.route),
                   body |-> NoBody, cookies |-> Null]
    /\ metapc' = Answered2(mcall)
    /\ UNCHANGED <<mcall, mquery, mup, mapi, mfront, sessionVars, mergeVars, decodeVars, streamVars, pageVars>>

\* api.js lines 53-64 and 209-310: apiRequest throws unless the answer is ok;
\* getDownloadMetadata maps and filters the downloads of the answer
FrontendResult ==
    /\ metapc = "answered"
    /\ mfront' = IF mout.status # 200
                 THEN [ok |-> FALSE, status |-> mout.status, downloads |-> <<>>,
                       hasResource |-> FALSE]
                 ELSE IF mcall.fn = "getDownloadMetadata"
                 THEN [ok |-> TRUE, status |-> 200,
                       downloads |-> FinalDownloads(mout.body.downloads),
                       hasResource |-> Len(FinalDownloads(mout.body.downloads)) > 0]
                 ELSE [ok |-> TRUE, status |-> 200, downloads |-> mout.body.downloads,
                       hasResource |-> FALSE]
    /\ metapc' = "done"
    /\ UNCHANGED <<mcall, mquery, mup, mapi, mout, sessionVars, mergeVars, decodeVars, streamVars, pageVars>>

NextMeta ==
    \/ FrontendCall
    \/ RouteStart
    \/ RouteEnsureResponse
    \/ MetaResponse
    \/ PlayResponse
    \/ MovieResponse
    \/ RouteError
    \/ FrontendResult

SpecMeta == InitMeta /\ [][NextMeta]_vars

(***************************************************************************)
(* SpecRoutes: one inbound request to any route of the server              *)
(***************************************************************************)

InitRoutes == InitStream \/ InitMeta

NextRoutes == NextStream \/ NextMeta

SpecRoutes == InitRoutes /\ [][NextRoutes]_vars

(***************************************************************************)
(* Cookie names and values of a cookie string, read off the text           *)
(***************************************************************************)

\* the trimmed, non-empty segments of a cookie string
SegmentsOf(s) ==
    IF Falsy(s) THEN <<>>
    ELSE LET parts == Split(s, ";")
         IN SelectSeq([i \in 1..Len(parts) |-> Trim(parts[i])], LAMBDA seg : seg # <<>>)

NameOfSegment(seg) == Split(seg, "=")[1]

ValueOfSegment(seg) == SubSeq(seg, Len(NameOfSegment(seg)) + 2, Len(seg))

\* the (non-empty) names of a list of segments
NamesAmong(segs) == { NameOfSegment(segs[i]) : i \in 1..Len(segs) } \ { <<>> }

\* the value a list of segments gives a name: that of the last pair with the
\* name
ValueAmong(segs, name) ==
    LET last == CHOOSE i \in 1..Len(segs) :
                    /\ NameOfSegment(segs[i]) = name
                    /\ \A j \in (i + 1)..Len(segs) : NameOfSegment(segs[j]) # name
    IN ValueOfSegment(segs[last])

\* the (non-empty) cookie names a cookie string mentions
CookieNames(s) == NamesAmong(SegmentsOf(s))

\* the value a cookie string gives a name: that of the last pair with the name
CookieValue(s, name) == ValueAmong(SegmentsOf(s), name)

(***************************************************************************)
(* Claims about the failover loop of makeRequest                           *)
(***************************************************************************)

\* the requests a call issued in one attempt, in the order it issued them
SentIn(call, attempt) == SelectSeq(call.sent, LAMBDA r : r.attempt = attempt)

\* the pool as configured: the primary host, then the mirrors in their order
PoolUrl(i) == IF i = 1 THEN HOST_URL ELSE "https://" \o MIRROR_HOSTS[i - 1] \o "/"

\* C1: if in some attempt every host before position k failed with a
\* retryable error and host k succeeded, the call returns the response of host
\* k, having sent in that attempt exactly one request to each of the hosts
\* 1..k in pool order and none to a host after k.
C1_FailoverOrder ==
    \A c \in Requesters :
        LET call == calls[c]
            n == Len(call.sent)
        IN (n > 0 /\ call.sent[n].outcome = "ok") =>
              LET k == call.sent[n].host
                  tried == SentIn(call, call.sent[n].attempt)
              IN /\ call.pc = "returned"
                 /\ call.result.kind = "response"
                 /\ call.result.req = n
                 /\ Len(tried) = k
                 /\ \A i \in 1..k :
                        /\ tried[i].host = i
                        /\ tried[i].url = PoolUrl(i)
                        /\ i < k => tried[i].outcome = "failed"

\* C1 witness: hosts 1 and 2 failed, host 3 answered, and the call returned
C1_Witness ==
    \E c \in Requesters :
        /\ calls[c].pc = "returned"
        /\ Len(calls[c].sent) = 3
        /\ calls[c].sent[1].outcome = "failed"
        /\ calls[c].sent[2].outcome = "failed"
        /\ calls[c].sent[3].outcome = "ok"
        /\ calls[c].result.req = 3

\* C2: once a request of the call is answered 404 or 403, that request is the
\* last one the call issues (no other host, no later attempt, no backoff
\* sleep after it) and the call has failed with that very error.
C2_FatalClientError ==
    \A c \in Requesters :
        LET call == calls[c]
        IN \A i \in 1..Len(call.sent) :
              call.sent[i].outcome = "denied" =>
                 /\ i = Len(call.sent)
                 /\ call.pc = "thrown"
                 /\ call.result.kind = "error"
                 /\ call.result.req = i
                 /\ call.result.status \in {404, 403}
                 /\ Len(call.slept) = call.sent[i].attempt

\* C2 witness: a 403 from the second host of the second attempt ended the call
C2_Witness ==
    \E c \in Requesters :
        /\ calls[c].pc = "thrown"
        /\ calls[c].result.status = 403
        /\ Len(calls[c].sent) = Len(hosts) + 2
        /\ calls[c].sent[Len(hosts) + 2].outcome = "denied"

\* C3: when every request of a call failed with an error other than 404/403
\* and the call has ended, it issued exactly (retries+1) x |hosts| requests,
\* every host once per attempt for attempts 0..retries, and failed with the
\* error of the last request it made.
C3_Exhaustion ==
    \A c \in Requesters :
        LET call == calls[c]
            H == Len(hosts)
        IN (/\ call.pc \in {"returned", "thrown"}
            /\ \A i \in 1..Len(call.sent) : call.sent[i].outcome = "failed") =>
              /\ call.pc = "thrown"
              /\ Len(call.sent) = (call.retries + 1) * H
              /\ \A i \in 1..Len(call.sent) :
                     /\ call.sent[i].attempt = (i - 1) \div H
                     /\ call.sent[i].host = ((i - 1) % H) + 1
              /\ call.result.kind = "error"
              /\ call.result.req = Len(call.sent)
              /\ call.result.status \in {0, 500, 401}

\* C3 witness: a call with retries = 2 failed after 3 x |hosts| requests
C3_Witness ==
    \E c \in Requesters :
        /\ calls[c].pc = "thrown"
        /\ calls[c].retries = 2
        /\ Len(calls[c].sent) = 3 * Len(hosts)
        /\ calls[c].sent[Len(calls[c].sent)].outcome = "failed"

(***************************************************************************)
(* Claims about the session store                                          *)
(***************************************************************************)

\* C4: the names of mergeCookies(existing, new) are the union of the names of
\* existing and of new; a name of new carries new's value, a name only in
\* existing keeps existing's value; no known name is dropped.
C4_NamewiseMerge ==
    mpc # "input" =>
        /\ CookieNames(mergedOnce) = CookieNames(existingCookies) \cup CookieNames(newCookies)
        /\ \A n \in CookieNames(newCookies) :
               CookieValue(mergedOnce, n) = CookieValue(newCookies, n)
        /\ \A n \in CookieNames(existingCookies) \ CookieNames(newCookies) :
               CookieValue(mergedOnce, n) = CookieValue(existingCookies, n)

\* C4 witness: a merge of "a=1; b" with "a=2" that re-set a and kept b
C4_Witness ==
    /\ mpc = "once"
    /\ existingCookies = <<"a", "=", "1", ";", " ", "b">>
    /\ newCookies = <<"a", "=", "2">>
    /\ mergedOnce = <<"a", "=", "2", ";", " ", "b", "=">>

\* C5: merging the same cookie string twice gives the same session string as
\* merging it once: mergeCookies(mergeCookies(S, c), c) = mergeCookies(S, c).
C5_MergeIdempotent ==
    mpc = "twice" => mergedTwice = mergedOnce

\* C6: under every interleaving of makeRequest and ensureCookiesAreAssigned
\* calls no update of the session store is lost: a cookie name that is in the
\* store stays in it in every later state (only its value may change).
C6_NoLostUpdate ==
    [][CookieNames(globalCookies) \subseteq CookieNames(globalCookies')]_vars

(***************************************************************************)
(* The reference encoding of a payload, read off the payload itself: a     *)
(* number held by an array or a map is a reference when it is an integer   *)
(* in [0, length); the denotation of a value replaces every reference by   *)
(* the denotation of the element it names.                                 *)
(***************************************************************************)

IsReference(data, v) == v.t = "num" /\ v.h % 2 = 0 /\ v.h >= 0 /\ v.h < 2 * Len(data)

\* the values an array or a map holds directly
Held(v) ==
    IF v.t = "arr" THEN { v.items[i] : i \in 1..Len(v.items) }
    ELSE IF v.t = "obj" THEN { v.pairs[i][2] : i \in 1..Len(v.pairs) }
    ELSE {}

\* the numbers held anywhere inside a value
RECURSIVE NumbersIn(_)
NumbersIn(v) ==
    { w \in Held(v) : w.t = "num" }
        \cup UNION { NumbersIn(w) : w \in { u \in Held(v) : u.t \in {"arr", "obj"} } }

\* every number the payload holds is a reference
AllInRange(data) ==
    \A i \in 1..Len(data) : \A v \in NumbersIn(data[i]) : IsReference(data, v)

\* some number the payload holds is negative, not an integer or >= length
SomeOutOfRange(data) ==
    \E i \in 1..Len(data) : \E v \in NumbersIn(data[i]) : ~IsReference(data, v)

\* element i names element j
Edges(data) ==
    UNION { { <<i, (v.h \div 2) + 1>> :
                v \in { w \in NumbersIn(data[i]) : IsReference(data, w) } }
            : i \in 1..Len(data) }

\* the chains R, and those extended by one more reference of E
Extend(R, E) ==
    R \cup { <<q[1][1], q[2][2]>> : q \in { pe \in R \X E : pe[1][2] = pe[2][1] } }

RECURSIVE Closure(_, _, _)
Closure(R, E, k) == IF k = 0 THEN R ELSE Closure(Extend(R, E), E, k - 1)

\* the pairs <<i, j>> with a chain of references from i to j
Reaches(data) == Closure(Edges(data), Edges(data), Len(data))

\* no chain of references returns to the element it started from
Acyclic(data) == \A i \in 1..Len(data) : <<i, i>> \notin Reaches(data)

\* the element a held value stands for
Referent(data, v) == IF IsReference(data, v) THEN data[(v.h \div 2) + 1] ELSE v

\* the denotation of a value of an acyclic payload
RECURSIVE Denote(_, _)
Denote(data, v) ==
    IF v.t = "arr"
    THEN Arr([i \in 1..Len(v.items) |-> Denote(data, Referent(data, v.items[i]))])
    ELSE IF v.t = "obj"
    THEN Obj([i \in 1..Len(v.pairs) |->
                <<v.pairs[i][1], Denote(data, Referent(data, v.pairs[i][2]))>>])
    ELSE v

IsMap(v) == v.t = "obj"

\* the denotations of the top-level maps of the payload, in order
Denotations(maps, data) == [i \in 1..Len(maps) |-> Denote(data, maps[i])]

\* the number of values in a value
RECURSIVE Size(_)
RECURSIVE SizeOfAll(_)
SizeOfAll(values) ==
    IF values = <<>> THEN 0 ELSE Size(Head(values)) + SizeOfAll(Tail(values))

Size(v) ==
    IF v.t = "arr" THEN 1 + SizeOfAll(v.items)
    ELSE IF v.t = "obj" THEN 1 + SizeOfAll([i \in 1..Len(v.pairs) |-> v.pairs[i][2]])
    ELSE 1

\* whether the script at position at holds a JSON array, and that array
HoldsArray(at) == at # 0 /\ html[at].text.valid /\ html[at].text.json.t = "arr"

ArrayAt(at) == html[at].text.json.items

\* the parsers that have run
DetailDone == dpc \in {"downloadable", "done"}

DownloadableDone == dpc = "done"

StackExhausted(result) == result.error = "Maximum call stack size exceeded"

\* the extracts a parser built are the denotations of the payload's maps,
\* and the call stack was not exhausted
Decoded(result, data) ==
    /\ ~StackExhausted(result)
    /\ result.extracts = Denotations(SelectSeq(data, IsMap), data)

\* C7 for one parser: an acyclic payload whose numbers are all references
ResolvesReferences(done, at, result) ==
    (done /\ HoldsArray(at) /\ Acyclic(ArrayAt(at)) /\ AllInRange(ArrayAt(at)))
        => Decoded(result, ArrayAt(at))

\* C7: Reference resolution.  For every acyclic payload whose integer
\* references are all in range, each parser terminates without exhausting
\* the stack and its resolved entities hold, at every position that held an
\* index reference, the resolved value of the element referenced.
C7_ReferenceResolution ==
    /\ ResolvesReferences(DetailDone, SelectScriptDetail(html), movieDetails)
    /\ ResolvesReferences(DownloadableDone, SelectScriptDownloadable(html),
                          downloadableMetadata)

\* a chain of two references, [{"k":1},[2],"x"], resolved by both parsers
C7_Witness ==
    /\ dpc = "done"
    /\ html = JsonPage(<< Obj(<< <<"k", Num(1)>> >>), Arr(<<Num(2)>>), Str(<<"x">>) >>)
    /\ movieDetails.extracts = << Obj(<< <<"k", Arr(<<Str(<<"x">>)>>)>> >>) >>
    /\ downloadableMetadata.extracts = movieDetails.extracts
    /\ movieDetails.ok /\ downloadableMetadata.ok

\* C8 for one parser: an acyclic payload holding an out-of-range number
KeepsLiterals(done, at, result) ==
    (done /\ HoldsArray(at) /\ Acyclic(ArrayAt(at)) /\ SomeOutOfRange(ArrayAt(at)))
        => Decoded(result, ArrayAt(at))

\* C8: Out-of-range indices.  In both parsers every held number that is
\* negative, not an integer or >= the payload length stays in the output as
\* that literal number: it is not used to index the payload, and the parser
\* does not throw on it.
C8_OutOfRangeLiteral ==
    /\ KeepsLiterals(DetailDone, SelectScriptDetail(html), movieDetails)
    /\ KeepsLiterals(DownloadableDone, SelectScriptDownloadable(html), downloadableMetadata)

\* C9 for one parser: the nesting of resolveValue calls stays within the
\* number of values of the payload and the call stack is never exhausted
BoundedRecursion(done, at, result) ==
    (done /\ HoldsArray(at))
        => /\ ~StackExhausted(result)
           /\ result.d <= SizeOfAll(ArrayAt(at))

\* C9: Cyclic payloads.  Whatever the payload, cyclic ones included, each
\* parser ends after a number of nested resolve steps bounded by the payload;
\* it never recurses until the call stack is exhausted.
C9_BoundedRecursion ==
    /\ BoundedRecursion(DetailDone, SelectScriptDetail(html), movieDetails)
    /\ BoundedRecursion(DownloadableDone, SelectScriptDownloadable(html),
                        downloadableMetadata)

\* an entity with a resData that carries subject, resource or metadata
HasSubStructures(v) ==
    \E key \in {"resData", "$sresData"} :
        /\ Prop(v, key).t = "obj"
        /\ \E part \in {"subject", "resource", "metadata"} : HasKey(Prop(v, key).pairs, part)

\* the resolved entities: the extracts and the pages under their state
Entities(extracts) ==
    { extracts[i] : i \in 1..Len(extracts) }
        \cup UNION { Held(Prop(extracts[i], "state")) : i \in 1..Len(extracts) }

\* C10: Extraction failure is an error.  parseMovieDetailPage(html) throws,
\* and returns no entity, when the page has no embedded JSON array script,
\* or the array holds no map entry, or no resolved entity exposes a resData
\* carrying subject / resource / metadata.
C10_ExtractionFailure ==
    (/\ DetailDone
     /\ ~whole
     /\ \/ ~HoldsArray(SelectScriptDetail(html))
        \/ movieDetails.extracts = <<>>
        \/ ~StackExhausted(movieDetails)
              /\ \A e \in Entities(movieDetails.extracts) : ~HasSubStructures(e))
        => ~movieDetails.ok

(***************************************************************************)
(* Claims about the streaming routes                                       *)
(***************************************************************************)

\* the bytes a..b in ascending order
Bytes(a, b) == [i \in 1..(b - a + 1) |-> a + i - 1]

\* the client has been sent the headers of a streamed body
Streaming == sres.headersSent /\ sres.body = "stream"

\* C11: for a client request with Range: bytes=a-b (0 <= a <= b < N) on an
\* N-byte resource the streaming route answers with status 206,
\* Content-Range: bytes a-b/N, Accept-Ranges: bytes and Content-Length
\* b-a+1, and a transfer that ends has relayed exactly the bytes a..b
C11_PartialContent ==
    \A a \in 0..(cdn.size - 1), b \in 0..(cdn.size - 1) :
       (a <= b /\ sreq.range = RangeHeader(a, b) /\ Streaming
          /\ sreq.route \in {"download", "download-proxy"}) =>
          /\ sres.status = 206
          /\ sres.ContentRange = ContentRange(a, b, Digits(cdn.size))
          /\ sres.AcceptRanges = <<"b", "y", "t", "e", "s">>
          /\ sres.ContentLength = Digits(b - a + 1)
          /\ (sres.state = "ended" => sres.relayed = Bytes(a, b))

(***************************************************************************)
(* Claims about the candidates of the download-metadata route              *)
(***************************************************************************)

\* the resource url and the direct url of an upstream entry are both empty
\* or missing
BothUrlsEmpty(download) ==
    /\ download.url \in {Null, <<>>}
    /\ ~download.resource.present \/ download.resource.url \in {Null, <<>>}

\* the entries of an upstream list that have a url, in their order
RECURSIVE WithUrl(_)
WithUrl(all) ==
    IF all = <<>> THEN <<>>
    ELSE (IF BothUrlsEmpty(Head(all)) THEN <<>> ELSE <<Head(all)>>) \o WithUrl(Tail(all))

\* the download-metadata route has answered with a candidate list
MetaAnswered == mquery.route = "download" /\ mout.status = 200

\* getDownloadMetadata has returned a candidate list
FrontendReturned == mcall.fn = "getDownloadMetadata" /\ mfront.ok

C13_UrlAuthoritative ==
    /\ MetaAnswered => mout.body.downloads = WithUrl(allDownloads(mapi))
    /\ FrontendReturned => Len(mfront.downloads) = Len(WithUrl(allDownloads(mapi)))

(***************************************************************************)
(* Claims about the season and episode of a metadata request               *)
(***************************************************************************)

\* the number a season or an episode of the model stands for
NumberOf(v) == parseInt(ToStringV(OrZero(v)))

\* C19: the request the download-metadata and play routes send upstream has
\* se = 0 whenever its ep is 0, and the season of the caller whenever the
\* episode of the caller is not 0; so has the query the frontend client
\* builds
C19_SeasonNormalisation ==
    /\ (mup.sent /\ mquery.route \in {"download", "play"}) =>
          /\ NumberOf(mup.ep) = 0 => mup.se = Str(<<"0">>)
          /\ NumberOf(mquery.ep) # 0 =>
                /\ NumberOf(mup.se) = NumberOf(mquery.se)
                /\ NumberOf(mup.ep) = NumberOf(mquery.ep)
    /\ (mcall.fn # "none" /\ mquery # NoQuery) =>
          /\ NumberOf(mquery.ep) = 0 => mquery.se = Str(<<"0">>)
          /\ NumberOf(mcall.episode) # 0 =>
                /\ NumberOf(mquery.se) = NumberOf(mcall.season)
                /\ NumberOf(mquery.ep) = NumberOf(mcall.episode)

\* a query with season 1 and episode 0 has reached the download-metadata
\* route and gone upstream with season 0
C19_Witness ==
    /\ mup.sent
    /\ mquery.route = "download"
    /\ mquery.se = Str(<<"1">>)
    /\ mquery.ep = Str(<<"0">>)
    /\ mup.se = Str(<<"0">>)
    /\ mup.ep = Str(<<"0">>)

(***************************************************************************)
(* Claims about the answer of the download-metadata route                  *)
(***************************************************************************)

\* the route answers with a success result
FramedAsSuccess == mout.status = 200 /\ mout.body.code = 0 /\ mout.body.message = "ok"

\* C20: the download-metadata route never answers with a success result
\* (code 0, message 'ok') when no candidate is left after filtering or when
\* the upstream answer carried no downloads at all
C20_NoFabricatedSuccess ==
    (MetaAnswered /\ mout.body.downloads = <<>>) => ~FramedAsSuccess

(***************************************************************************)
(* Claims about the faults of the streaming routes                         *)
(***************************************************************************)

\* /download-proxy has answered after its last upstream request reported
\* `status`, be it the HEAD probe or the main GET
Reported(status) ==
    /\ sreq.route = "download-proxy"
    /\ spc = "done"
    /\ ups # <<>>
    /\ ups[Len(ups)].status = status

\* the url carries 'sign=' or '&t='
HasMarker == sreq.url \in {SignedUrl, TimedUrl}

AnswerIs(status, error) == sres.status = status /\ sres.error = error

\* C14: in /download-proxy a reported status 404 yields 'not found' (404);
\* 403 with a url that contains 'sign=' or '&t=' yields 'link expired'
\* (410); 403 without such a marker yields 'region restricted' (403); 401
\* yields 'link expired' (410); for the probe and for the main GET alike
C14_ProbeMapping ==
    /\ Reported(404) => AnswerIs(404, "File not found on CDN")
    /\ (Reported(403) /\ HasMarker) => AnswerIs(410, "Download URL expired")
    /\ (Reported(403) /\ ~HasMarker) => AnswerIs(403, "Region restriction")
    /\ Reported(401) => AnswerIs(410, "Download URL expired")

\* the probe has passed and the main GET has reported 403 for a url with an
\* expiry parameter: the client is told that the link has expired
C14_Witness ==
    /\ Reported(403)
    /\ Len(ups) = 2
    /\ ups[1].status = 200
    /\ sreq.url = TimedUrl
    /\ client = "connected"
    /\ sres.state = "ended"
    /\ AnswerIs(410, "Download URL expired")

\* the piped stream has failed after the headers of the body were sent
FailedMidTransfer ==
    /\ Streaming
    /\ \E i \in 1..Len(ups) : ups[i].piped /\ ups[i].state = "errored"

\* C15: when the upstream stream fails after relaying has started, the
\* client-facing response is terminated as a fault; it is neither ended
\* normally nor left as it is
C15_MidTransferFault == FailedMidTransfer => sres.state = "aborted"

\* every upstream connection of the request is over
UpstreamsClosed == \A i \in 1..Len(ups) : ups[i].state \notin {"pending", "open"}

\* C16: whenever the client disconnects during a download, every upstream
\* connection opened for the request is eventually closed or aborted
C16_CancellationPropagates == (client = "gone") ~> UpstreamsClosed

(***************************************************************************)
(* Claims about the header profiles                                        *)
(***************************************************************************)

\* the Referer values of the metadata profiles: the content host and the
\* page of the movie on it
MetadataReferers == { HOST_URL, HOST_URL \o "movies/" \o DetailPath }

\* the request carries the media profile
MediaProfile(headers) ==
    /\ headers.Accept = "*/*"
    /\ headers.Referer = "https://fmoviesunblocked.net/"
    /\ headers.Origin = SELECTED_HOST

\* C17: every upstream request of a media transfer (download,
\* download-subtitle, download-proxy and its probe) carries the media
\* profile, and every metadata request (search, movie page, download and
\* play metadata) carries a Referer on the content host, never the media
\* Referer
C17_ProfilesNotInterchanged ==
    /\ \A i \in 1..Len(ups) : MediaProfile(ups[i].headers)
    /\ mup.sent =>
          /\ mup.headers.Referer \in MetadataReferers
          /\ mup.headers.Referer # "https://fmoviesunblocked.net/"
          /\ ~MediaProfile(mup.headers)

\* the probe and the main GET of /download-proxy have both been sent
C17_Witness ==
    /\ sreq.route = "download-proxy"
    /\ Len(ups) = 2
    /\ ups[1].method = "HEAD"
    /\ ups[2].method = "GET"
    /\ ups[2].state = "open"

(***************************************************************************)
(* Claims about the seasons of a decoded page                              *)
(***************************************************************************)

\* the seasons of the object a parser returned
SeasonsOf(result) == Prop(result.value, "seasons")

\* the parser returned one season for each count, with the episode numbers
\* 1..count and totalEpisodes = count
Synthesised(result, counts) ==
    /\ result.ok
    /\ SeasonsOf(result).t = "arr"
    /\ Len(SeasonsOf(result).items) = Len(counts)
    /\ \A i \in 1..Len(counts) :
          /\ Prop(SeasonsOf(result).items[i], "episodeNumbers")
                = Arr([j \in 1..counts[i] |-> Num(j)])
          /\ Prop(SeasonsOf(result).items[i], "totalEpisodes") = Num(counts[i])

\* C18: a season of the decoded resource whose episode count n >= 0 is held
\* in maxEp (or allEp) and which has no episode list gets the episode
\* numbers 1..n in ascending order (none when n = 0) and totalEpisodes = n,
\* from parseMovieDetailPage (called for the entity, not for the whole first
\* extract) and from parseDownloadableMetadata
C18_SeasonSynthesis ==
    \A field \in CountFields, n \in 0..MaxEpisodes, m \in 0..MaxEpisodes :
       html = JsonPage(SeasonPayload(field, n, m)) =>
          /\ (dpc # "detail" /\ ~whole) => Synthesised(movieDetails, <<n, m>>)
          /\ dpc = "done" => Synthesised(downloadableMetadata, <<n, m>>)

\* maxEp = 3 has given [1, 2, 3] and a season of no episodes an empty list
C18_Witness ==
    /\ dpc = "done"
    /\ ~whole
    /\ html = JsonPage(SeasonPayload("maxEp", 3, 0))
    /\ Prop(SeasonsOf(movieDetails).items[1], "episodeNumbers") = Arr(<<Num(1), Num(2), Num(3)>>)
    /\ Prop(SeasonsOf(downloadableMetadata).items[1], "episodeNumbers")
          = Arr(<<Num(1), Num(2), Num(3)>>)
    /\ Prop(SeasonsOf(downloadableMetadata).items[2], "episodeNumbers") = Arr(<<>>)
    /\ Prop(SeasonsOf(downloadableMetadata).items[2], "totalEpisodes") = Num(0)

\* the requests issued so far by makeRequest call c
RequestsOf(c) == IF calls[c].fn = "makeRequest" THEN calls[c].sent ELSE <<>>

\* C21: the headers of every request of makeRequest are the default
\* fingerprint headers overridden key by key by the headers of the caller:
\* every key of the caller carries the value of the caller, and every default
\* header whose key the caller did not supply is present with its default
\* value
C21_HeaderMerge ==
    \A c \in Requesters :
       \A i \in 1..Len(RequestsOf(c)) :
          LET sent == RequestsOf(c)[i].headers
              own  == calls[c].headers
          IN /\ \A k \in DOMAIN own : k \in DOMAIN sent /\ sent[k] = own[k]
             /\ \A k \in DOMAIN DefaultHeaders \ DOMAIN own :
                   k \in DOMAIN sent /\ sent[k] = DefaultHeaders[k]

\* C22: every request to the upstream, on each host and each attempt,
\* carries the Cookie of the caller if the caller supplied one, otherwise the
\* value the store holds at the moment the request is issued if that is not
\* empty, otherwise no Cookie
C22_CookieAttachment ==
    \A c \in Requesters :
       \A i \in 1..Len(RequestsOf(c)) :
          LET request == RequestsOf(c)[i]
          IN CookieOf(request.headers) =
                IF CookieOf(calls[c].headers) # Null
                THEN CookieOf(calls[c].headers)
                ELSE CookieHeader(request.store)

\* call c was awaiting the answer to a request and this step delivers it
AnswerTo(c) == calls[c].fn = "makeRequest" /\ calls[c].pc = "await" /\ calls'[c] # calls[c]

\* store `after` is the merge by name of `before` with the cookies `new`
MergedByName(after, before, new) ==
    LET merged == SegmentsOf(after)
        kept   == SegmentsOf(before)
        added  == SegmentsOf(new)
    IN /\ NamesAmong(merged) = NamesAmong(kept) \cup NamesAmong(added)
       /\ \A n \in NamesAmong(added) : ValueAmong(merged, n) = ValueAmong(added, n)
       /\ \A n \in NamesAmong(kept) \ NamesAmong(added) :
             ValueAmong(merged, n) = ValueAmong(kept, n)

\* C25: a successful request of makeRequest whose response carries Set-Cookie
\* leaves the store equal to the merge by name of its prior value with the
\* new cookies, and the cookies returned with the payload equal the store; a
\* successful response without Set-Cookie and every failed request leave the
\* store unchanged
C25_StoreAfterResponse ==
    [][\A c \in Requesters :
          AnswerTo(c) =>
             IF calls'[c].result.kind = "response" /\ calls'[c].result.setCookie.present
             THEN /\ MergedByName(globalCookies', globalCookies,
                                  CookiesFromSetCookie(calls'[c].result.setCookie.list))
                  /\ calls'[c].result.cookies = globalCookies'
             ELSE globalCookies' = globalCookies]_vars

\* a response with Set-Cookie: a=1 has been merged into a store that held
\* e=1 and the merged cookies were returned
C25_Witness ==
    \E c \in Requesters :
       /\ calls[c].pc = "returned"
       /\ calls[c].result.kind = "response"
       /\ calls[c].result.setCookie.list = << <<"a", "=", "1">> >>
       /\ calls[c].result.cookies = <<"e", "=", "1", ";", " ", "a", "=", "1">>
       /\ globalCookies = calls[c].result.cookies

\* every host of the pool was tried in the attempt and failed with an error
\* other than 404/403
AllFailed(call, attempt) ==
    /\ Len(SentIn(call, attempt)) = Len(hosts)
    /\ \A i \in 1..Len(hosts) : SentIn(call, attempt)[i].outcome = "failed"

\* C26: makeRequest sleeps (attempt + 1) seconds exactly when every host of
\* attempt `attempt` failed with a retryable error and attempt < retries: the
\* sleeps of a call are those of its exhausted attempts below retries, in
\* order, each before the first request of the next attempt; there is no
\* sleep before the first request, between two hosts, after a success, after
\* a 404/403 or after the final attempt
C26_Backoff ==
    \A c \in Requesters :
       LET call == calls[c]
       IN /\ \A attempt \in 0..MaxRetries :
                attempt < Len(call.slept)
                   <=> (AllFailed(call, attempt) /\ attempt < call.retries)
          /\ \A i \in 1..Len(call.slept) : call.slept[i] = i
          /\ \A i \in 1..Len(call.sent) : call.sent[i].attempt <= Len(call.slept)
          /\ call.pc = "sleep" =>
                /\ Len(call.slept) = call.attempt + 1
                /\ call.sent[Len(call.sent)].attempt = call.attempt

\* a call with retries = 2 slept 1 s and 2 s and failed after its third
\* attempt without a further sleep
C26_Witness ==
    \E c \in Requesters :
       /\ calls[c].pc = "thrown"
       /\ calls[c].retries = 2
       /\ calls[c].slept = <<1, 2>>
       /\ AllFailed(calls[c], 2)

\* C30: if every request to the upstream is answered or times out, every
\* makeRequest call eventually returns or fails; a call sends a host at most
\* one request per attempt, so a host that never answers costs the call at
\* most one request timeout per attempt
C30_DispatchTerminates ==
    /\ [](\A c \in Requesters : \A attempt \in 0..MaxRetries :
             \A i, j \in 1..Len(SentIn(calls[c], attempt)) :
                SentIn(calls[c], attempt)[i].url = SentIn(calls[c], attempt)[j].url => i = j)
    /\ \A c \in Requesters :
          calls[c].fn = "makeRequest" ~> calls[c].pc \in {"returned", "thrown"}

\* the rating a page with the ratings at `place` has under `key`: that on
\* subject, else that on metadata, else null
RatingAt(place, key) ==
    CASE place \in {"subject", "both"} ->
            (IF key = "imdbRatingValue" THEN Str(<<"8">>) ELSE Num(5))
      [] place = "metadata" ->
            (IF key = "imdbRatingValue" THEN Str(<<"7">>) ELSE Num(4))
      [] OTHER -> NullV

\* C23: in the entity parseMovieDetailPage returns, subject and metadata
\* carry the same imdbRatingValue and the same imdbRatingCount, each the
\* value found on subject, else that found on metadata, else null; so does
\* the subject nested in the returned resData
C23_RatingsInBothPlaces ==
    \A place \in RatingPlaces :
       (html = JsonPage(RatingPayload(place)) /\ dpc # "detail" /\ ~whole) =>
          /\ movieDetails.ok
          /\ \A key \in {"imdbRatingValue", "imdbRatingCount"} :
                /\ Prop(Prop(movieDetails.value, "subject"), key) = RatingAt(place, key)
                /\ Prop(Prop(movieDetails.value, "metadata"), key) = RatingAt(place, key)
                /\ Prop(Prop(Prop(movieDetails.value, "resData"), "subject"), key)
                      = RatingAt(place, key)

\* C24: whether the subtitle languages of the subject are a comma-joined
\* string or an array, parseDownloadableMetadata succeeds and
\* subtitleLanguages is the list of the trimmed names; without the field it
\* is the empty list
C24_SubtitleLanguages ==
    \A form \in SubtitleForms :
       (html = JsonPage(SubtitlePayload(form)) /\ dpc = "done") =>
          /\ downloadableMetadata.ok
          /\ Prop(downloadableMetadata.value, "subtitleLanguages") =
                IF form = "absent" THEN Arr(<<>>)
                ELSE Arr(<<Str(<<"e", "n">>), Str(<<"f", "r">>)>>)

\* the positions of the resolved entities with a state array longer than 1,
\* and of those exposing resData or data
WithState(extracts) == { i \in 1..Len(extracts) : HasState(extracts[i]) }

WithData(extracts) == { i \in 1..Len(extracts) : HasData(extracts[i]) }

Least(S) == CHOOSE i \in S : \A j \in S : i <= j

\* state[1] of the first entity with a state
StateOfFirst(extracts) == Prop(extracts[Least(WithState(extracts))], "state").items[2]

\* what the first entity exposing resData or data exposes
DataOfFirst(extracts) ==
    LET extract == extracts[Least(WithData(extracts))]
    IN IF Truthy(Prop(extract, "resData")) THEN Prop(extract, "resData")
       ELSE IF Truthy(Prop(extract, "data")) THEN Prop(extract, "data")
       ELSE extract

\* the result carries every field of the entity under its key without the
\* '$s' prefix, and no prefixed key
TakenFrom(result, entity) ==
    /\ entity.t = "obj"
    /\ result.ok
    /\ \A i \in 1..Len(Entries(entity)) :
          Prop(result.value, StripPrefix(Entries(entity)[i][1])) = Entries(entity)[i][2]
    /\ \A key \in {"$sresData", "$sdata", "$sstate", "$surl"} :
          Prop(result.value, key) = Undefined

\* parseMovieDetailPage(html) has run and returned
Selecting == dpc # "detail" /\ ~whole /\ movieDetails.ok

\* C29 as stated: the first entity with a state array of length > 1 is
\* selected and its state[1] used, whatever state[1] is
C29_StateAlwaysSelected ==
    (Selecting /\ WithState(movieDetails.extracts) # {}) =>
        TakenFrom(movieDetails, StateOfFirst(movieDetails.extracts))

\* C29: among the resolved entities, in payload order, state[1] of the first
\* one with a state array of length > 1 is used if it is not null or empty,
\* even if an entity exposing resData/data comes earlier; otherwise what the
\* first entity exposing resData/data exposes; otherwise the first entity; the
\* '$s' prefix is stripped from the top-level keys of what was selected
C29_EntitySelection ==
    Selecting =>
       LET extracts == movieDetails.extracts
       IN IF WithState(extracts) # {} /\ Truthy(StateOfFirst(extracts))
          THEN TakenFrom(movieDetails, StateOfFirst(extracts))
          ELSE IF WithData(extracts) # {}
          THEN TakenFrom(movieDetails, DataOfFirst(extracts))
          ELSE TakenFrom(movieDetails, extracts[1])

\* the state of the second entity was selected although the first entity
\* exposes resData, and its $surl is returned as url
C29_Witness ==
    /\ dpc = "done"
    /\ ~whole
    /\ html = JsonPage(PriorityPayload)
    /\ movieDetails.ok
    /\ movieDetails.value = Obj(<< <<"url", Str(<<"x">>)>>, <<"j", Str(<<"x">>)>> >>)

\* the HEAD probe of /download-proxy has been answered with `status` (0: it
\* timed out or the connection failed)
ProbeEnded(status) ==
    /\ sreq.route = "download-proxy"
    /\ Len(ups) >= 1
    /\ ups[1].method = "HEAD"
    /\ ups[1].state # "pending"
    /\ ups[1].status = status

\* the main GET was rejected: axios threw before there was a stream
Rejected(up) == up.state = "errored" /\ up.status \notin {200, 206}

\* the status of the answer to a GET rejected with `status`
MappedStatus(status) ==
    CASE status = 401 -> 410
      [] status = 403 -> (IF HasMarker THEN 410 ELSE 403)
      [] status = 0   -> 500
      [] OTHER        -> status

\* the response to the client is that of the main GET: nothing before it is
\* answered, the mapped error if it was rejected, its stream otherwise
AnswerOfGet(up) ==
    /\ up.method = "GET"
    /\ up.headers.Range = RangeOrDefault(sreq.range)
    /\ up.state = "pending" => (sres.body = "none" /\ ~sres.headersSent)
    /\ Rejected(up) =>
          /\ sres.body = "json"
          /\ sres.status = MappedStatus(up.status)
          /\ sres.error # "File validation failed"
    /\ (up.state # "pending" /\ ~Rejected(up)) =>
          /\ sres.body \in {"none", "stream"}
          /\ sres.status = 200
          /\ sres.error = ""
          /\ sres.ContentLength = Serve(up.headers.Range, cdn.size).contentLength

\* C27: in /download-proxy a HEAD probe that fails with a timeout, a
\* connection error or a 5xx status does not end the request: the ranged GET
\* is issued and the response to the client is that of the GET alone
C27_ProbeNotAuthoritative ==
    (ProbeEnded(0) \/ ProbeEnded(500)) => (Len(ups) = 2 /\ AnswerOfGet(ups[2]))

\* the probe timed out, the GET was answered and its two bytes were relayed
C27_Witness ==
    /\ ProbeEnded(0)
    /\ Len(ups) = 2
    /\ ups[2].state = "ended"
    /\ sres.state = "ended"
    /\ sres.relayed = <<0, 1>>

\* C28: in /download-proxy the main GET is issued only after the HEAD probe
\* has been answered; the probe carries the headers of the GET without
\* Range; after a probe that reported a 4xx status no GET is issued and the
\* client gets the mapped error
C28_ProbePrecedesTransfer ==
    sreq.route = "download-proxy" =>
       /\ Len(ups) >= 1 => (ups[1].method = "HEAD" /\ ups[1].headers.Range = Null)
       /\ Len(ups) >= 2 =>
             /\ ups[1].state # "pending"
             /\ ups[2].method = "GET"
             /\ ups[1].headers = [ups[2].headers EXCEPT !.Range = Null]
             /\ ups[2].headers.Range # Null
       /\ \A status \in 400..499 :
             ProbeEnded(status) =>
                /\ Len(ups) = 1
                /\ spc = "done"
                /\ sres.body = "json"
                /\ sres.status = MappedStatus(status)

\* a probe answered 405: the client got 405 and no GET was issued
C28_Witness ==
    /\ ProbeEnded(405)
    /\ Len(ups) = 1
    /\ spc = "done"
    /\ sres.status = 405
    /\ sres.error = "File validation failed"

\* the cookie-initialisation requests issued so far by all calls
InitRequests == calls["m1"].initSent + calls["e1"].initSent

\* C31: cookie initialisation happens at most once: the calls of
\* ensureCookiesAreAssigned and makeRequest together, concurrent or one after
\* the other, issue at most one cookie-initialisation request
C31_InitAtMostOnce == InitRequests <= 1

\* C35: no attempt of makeRequest sends two requests to the same host of the
\* configured pool, so a call that has failed on every host has sent each
\* distinct host exactly retries + 1 requests
C35_HostOncePerAttempt ==
    \A c \in Requesters :
       LET call == calls[c]
       IN /\ \A attempt \in 0..MaxRetries :
                \A i, j \in 1..Len(SentIn(call, attempt)) :
                   SentIn(call, attempt)[i].url = SentIn(call, attempt)[j].url => i = j
          /\ (call.pc = "thrown" /\ \A i \in 1..Len(call.sent) : call.sent[i].outcome = "failed")
                => \A h \in 1..Len(hosts) :
                      Len(SelectSeq(call.sent, LAMBDA r : r.url = hosts[h])) = call.retries + 1

\* C32: every request the download-metadata route sends upstream while the
\* session has cookies carries a Cookie header that contains i18n_lang
C32_I18nLangSent ==
    (mup.sent /\ mquery.route = "download" /\ ~Falsy(globalCookies))
        => (~Falsy(mup.headers.Cookie) /\ Includes(mup.headers.Cookie, I18nLang))

\* C36: the Host header of every request sent to a host of the pool names
\* that host
C36_HostHeaderFollowsTarget ==
    \A c \in DOMAIN calls : \A i \in 1..Len(calls[c].sent) :
        LET r == calls[c].sent[i]
        IN  /\ "Host" \in DOMAIN r.headers
            /\ "https://" \o r.headers["Host"] \o "/" = r.url

\* C33: the url of every candidate the frontend client returns is the
\* resource url of its entry when that is non-empty, and the direct url of
\* the entry only when the resource url is empty or missing
C33_PreferredUrl ==
    FrontendReturned =>
        /\ Len(mfront.downloads) = Len(mout.body.downloads)
        /\ \A i \in 1..Len(mfront.downloads) :
              LET entry == mout.body.downloads[i]
              IN  IF entry.resource.present /\ ~Falsy(entry.resource.url)
                  THEN mfront.downloads[i].url = entry.resource.url
                  ELSE mfront.downloads[i].url = entry.url

\* a returned list whose first entry has both urls and whose second entry
\* has a direct url only
C33_Witness ==
    /\ FrontendReturned
    /\ Len(mfront.downloads) = 2
    /\ mapi.downloads[1] = Download(720, <<"d">>, Resource(<<"r">>, "true"))
    /\ mapi.downloads[2] = Download(720, <<"d">>, NoResource)
    /\ mfront.downloads[1].url = <<"r">>
    /\ mfront.downloads[2].url = <<"d">>

\* the upstream responses of the request whose body is open
OpenBodies == { i \in 1..Len(ups) : ups[i].state = "open" }

\* C37: while the client of a /download request is connected, at most one
\* upstream body is open, and once the handler has returned every open
\* upstream body is piped to the client
C37_NoOrphanedStream ==
    (sreq.route = "download" /\ client = "connected" /\ server = "up") =>
        /\ Cardinality(OpenBodies) <= 1
        /\ spc \in {"piping", "done"} => \A i \in OpenBodies : ups[i].piped

\* a header value that is a decimal number
IsNumber(s) == s # <<>> /\ \A i \in 1..Len(s) : IsDigit(s[i])

\* start, end and total of a Content-Range "bytes <start>-<end>/<total>"
AnsweredRange(contentRange) ==
    LET halves == Split(SubSeq(contentRange, 7, Len(contentRange)), "/")
        ends == Split(halves[1], "-")
    IN [start |-> ends[1], end |-> ends[Len(ends)], total |-> halves[Len(halves)]]

\* C38: every 206 answer of /download to a Range header (bytes=a-b, bytes=a-
\* or bytes=-n) on a resource of N bytes has 0 <= start <= end <= N-1 in its
\* Content-Range, a Content-Length of end - start + 1 > 0, and N as the
\* total of its Content-Range
C38_RangeArithmetic ==
    (sreq.route = "download" /\ Streaming /\ sres.status = 206) =>
        LET a == AnsweredRange(sres.ContentRange)
        IN  /\ IsNumber(a.start) /\ IsNumber(a.end) /\ IsNumber(a.total)
            /\ IsNumber(sres.ContentLength)
            /\ parseInt(a.start) <= parseInt(a.end)
            /\ parseInt(a.end) <= cdn.size - 1
            /\ parseInt(sres.ContentLength) = parseInt(a.end) - parseInt(a.start) + 1
            /\ parseInt(sres.ContentLength) > 0
            /\ parseInt(a.total) = cdn.size

(***************************************************************************)
(* The image load queue on a page with lazy images                          *)
(***************************************************************************)

\* a page with MaxImages lazy images and a queue for up to MaxConcurrent
\* concurrent loads (the page's own queue allows 4)
InitImages ==
    /\ imgs = [i \in 1..MaxImages |-> LazyImage]
    /\ imageLoadQueue \in { NewImageLoadQueue(maxConcurrent) : maxConcurrent \in 1..MaxConcurrent }
    /\ imageLoaders = {}
    /\ retryTimers = [i \in 1..MaxImages |-> 0]
    /\ QueueIdle
    /\ SearchIdle
    /\ SessionAtLoad
    /\ mbCookies = Null
    /\ MergeIdle
    /\ DecodeIdle
    /\ StreamIdle
    /\ MetaIdle

NextImages ==
    \/ \E img \in 1..Len(imgs), priority \in ObserverPriorities : Observe(img, priority)
    \/ ProcessTimer
    \/ \E l \in imageLoaders : LoadSuccess(l)
    \/ \E l \in imageLoaders : LoadError(l)
    \/ \E l \in imageLoaders : LoadTimeout(l)
    \/ \E img \in 1..Len(imgs) : RetryTimer(img)
    \/ MemoryCleanup
    \/ PeriodicCheck

SpecImages == InitImages /\ [][NextImages]_vars

\* C34: the number of images in the loading set of the image load queue is
\* at most maxConcurrent
C34_LoadingLimit == Cardinality(imageLoadQueue.loading) <= imageLoadQueue.maxConcurrent

(***************************************************************************)
(* The download queue                                                      *)
(***************************************************************************)

\* the backend is idle
BackIdle ==
    /\ SessionAtLoad
    /\ mbCookies = Null
    /\ MergeIdle
    /\ DecodeIdle
    /\ StreamIdle
    /\ MetaIdle

InitQueue ==
    /\ QueueIdle
    /\ ImagesIdle
    /\ SearchIdle
    /\ BackIdle

NextQueue ==
    \/ AddDownload
    \/ \E id \in 1..MaxAdds : PauseDownload(id)
    \/ \E id \in 1..MaxAdds : ResumeDownload(id)
    \/ \E id \in 1..MaxAdds : CancelDownload(id)
    \/ \E id \in 1..MaxAdds, status \in {200, 404} : XhrLoad(id, status)
    \/ \E id \in 1..MaxAdds : XhrError(id)
    \/ \E id \in 1..MaxAdds : RemovalTimer(id)

SpecQueue == InitQueue /\ [][NextQueue]_vars

\* the status changes a handler may make: one of pending -> downloading,
\* downloading -> completed, failed or paused, paused -> pending, or
\* paused -> pending -> downloading within resumeDownload
StatusStep(from, to) ==
    \/ from = to
    \/ from = "pending" /\ to = "downloading"
    \/ from = "downloading" /\ to \in {"completed", "failed", "paused"}
    \/ from = "paused" /\ to \in {"pending", "downloading"}

\* C39: the status of a download changes only along pending -> downloading
\* -> {completed, failed, paused} and paused -> pending, so a completed or
\* failed download is never paused or downloading again, and the removal
\* timer of a completed download never deletes a download that is
\* downloading
C39_StatusMachine ==
    [][ /\ \A id \in DOMAIN downloadItems :
              StatusStep(downloadItems[id].status, downloadItems'[id].status)
        /\ \A id \in downloadQueue :
              (removalTimers'[id] < removalTimers[id] /\ id \notin downloadQueue')
                  => downloadItems[id].status # "downloading" ]_vars

(***************************************************************************)
(* The search page                                                         *)
(***************************************************************************)

InitSearch ==
    /\ SearchIdle
    /\ ImagesIdle
    /\ QueueIdle
    /\ BackIdle

NextSearch ==
    \/ \E keyword \in Keywords : SubmitKeyword(keyword)
    \/ \E subjectType \in SubjectTypes : FilterClick(subjectType)
    \/ \E pageNum \in 1..TotalPages : PageClick(pageNum)
    \/ \E i \in 1..Len(searchRequests) : SearchResponse(i)
    \/ \E i \in 1..Len(searchRequests) : SearchError(i)

SpecSearch == InitSearch /\ [][NextSearch]_vars

\* every search sent has been answered
AllAnswered ==
    /\ Len(searchRequests) > 0
    /\ \A i \in 1..Len(searchRequests) : searchRequests[i].state = "answered"

\* C40: once the responses of all overlapping searches have arrived, the
\* results and the pagination shown are those of the search issued last:
\* they match currentSearchKeyword, currentFilters and currentPage
C40_ResultsNotStale ==
    (searchPage.location = "search.html" /\ AllAnswered) =>
        /\ searchPage.results = [shown |-> "items", keyword |-> currentSearchKeyword,
                                 subjectType |-> currentFilters.subjectType,
                                 page |-> currentPage]
        /\ searchPage.pagination = [shown |-> TRUE, keyword |-> currentSearchKeyword,
                                    page |-> currentPage]

====
